---- MODULE Spec2Model ----
(***************************************************************************)
(* Model of the device-flow poller (src/utils/auth.py, Auth0Client) and of *)
(* the session manager (src/utils/session.py, SessionManager) of the bot.  *)
(*                                                                         *)
(* The program runs on one asyncio event loop: a coroutine runs without    *)
(* interruption from one `await` of real I/O (or sleep) to the next.  Each *)
(* action below is one such uninterrupted stretch of one handler.  A call  *)
(* that is suspended in an await is a record in `frames` (calls made from  *)
(* outside) or a timer task in `tasks` (the expiry handler).               *)
(*                                                                         *)
(* Time is the integer `now` (seconds).  A timer task that was just        *)
(* created starts at once, and a sleeping task wakes when its deadline is  *)
(* reached: time does not advance past either (the event loop runs ready   *)
(* callbacks before it waits).  Network and storage awaits take any time.  *)
(***************************************************************************)
EXTENDS Integers, Sequences, FiniteSets, TLC

\* src/utils/session.py:14
SESSION_TIMEOUT == 60

\* handlers/auth.py:38
max_attempts == 30

\* Bounds of the model.
MaxTime == 120
MaxCalls == 4
MaxTasks == 3
MaxFrames == 2
MaxFlowCalls == 5
FlowHorizon == 20
MaxStarts == 1
MaxLoopCalls == 2
LoopHorizon == 160
MaxTwoCalls == 3
MaxRestarts == 2
RestartHorizon == 20
TwoHorizon == 60

Users == {1}
\* The users of the specification with two users.
TwoUsers == {1, 2}
TaskIds == 1..MaxTasks
FrameIds == 1..MaxFrames
\* Amounts by which the clock advances in one step.
TimeSteps == {50, 60}
FlowSteps == {5}
\* Profile claims handed to set_authorized.
ClaimsSet == {"claimsA", "claimsB"}
\* The `reason` argument of close_session ("" is the default).
Reasons == {"", "timeout"}
\* What the provider may answer to a device-code request.
ProviderIntervals == {5, 10}
ProviderExpiresIn == {10, 1800}

None == "None"

VARIABLES
  now,               \* time.time()
  bot,               \* SessionManager.bot is set
  settings,          \* Auth0 settings are all present (check_settings)
  sessions,          \* SessionManager.sessions: user -> session dict
  timers,            \* SessionManager.timers: user -> task id
  tasks,             \* the asyncio timer tasks: id -> task
  device_flow_data,  \* Auth0Client.device_flow_data: user -> record
  frames,            \* calls suspended in an await: slot -> frame
  calls,             \* number of calls made so far
  last               \* the call or expiry that returned in the last step

vars == <<now, bot, settings, sessions, timers, tasks, device_flow_data,
          frames, calls, last>>

Min(S) == CHOOSE x \in S : \A y \in S : x <= y

\* Python dict operations: `del d[k]` (of a present or absent key) and
\* `d[k] = v`.
Remove(f, k) == [x \in DOMAIN f \ {k} |-> f[x]]
Put(f, k, v) == (k :> v) @@ f

----------------------------------------------------------------------------
(* The mutable maps, passed through the operations as one record.          *)

State == [sessions |-> sessions, timers |-> timers, tasks |-> tasks,
          dfd |-> device_flow_data]

Commit(S) ==
  /\ sessions' = S.sessions
  /\ timers' = S.timers
  /\ tasks' = S.tasks
  /\ device_flow_data' = S.dfd

\* A call suspended at the await `pc`.  `t`, `near` and `pnet` are set by
\* poll: when it was called and, for the record it read, what `Near` says
\* below.  The polling loop check_auth_status keeps its `attempt` here and
\* the time `t` its sleep ends; the rest counts what the loop has done:
\*   n       calls of poll_device_flow
\*   closes  calls of close_session
\*   msgs    messages to the user that explain a failure
\*   auths   calls of set_authorized
\*   hit     whose exception the loop has caught: "chat" (a message sent or
\*           edited), "state" (the chat state), "profile" (get_user_info),
\*           "storage", "set_authorized", "poll"
Frame(op, u, pc, arg) ==
  [op |-> op, user |-> u, pc |-> pc, arg |-> arg, t |-> 0, near |-> FALSE,
   pnet |-> FALSE, attempt |-> 0, n |-> 0, closes |-> 0, msgs |-> 0,
   auths |-> 0, hit |-> "none"]

NoFrame == Frame("none", 0, "none", "None")

\* What a completed call or expiry handler returned, and how.  One record
\* shape for all:
\*   res    the return value ("raised": an exception left the call)
\*   path   poll: the check it returned from or the provider's response;
\*          close_session: its `reason`; start_device_flow: why it
\*          returned what it did
\*   auth   close_session, expiry: the session was authorized
\*   flow   close_session, expiry: the user had a device-flow record
\*   sends  expiry: notification sends attempted by this handler
\*   bot    expiry: a bot was set when the handler woke
\*   age    expiry: seconds since the closed session's last_activity
\*   again  close_session: the step before was a close_session of the
\*          same user that returned True; poll: the step before was a poll
\*          of the same user that found the record expired
\*   net    poll: a request was sent to the provider
\*   t      poll: when the call was made
\*   near   poll: the previous poll of the same record was made less than
\*          the record's interval before this one
\*   pnet   poll: that previous poll sent a request to the provider
\*   fails  expiry: how many of the handler's sends of the notice raised
\*   dbfail close_session, expiry: User.deactivate was awaited and raised
\*   fr      the polling loop or /start handler that returned or that made
\*          the call, as it was then
NoCall == [op |-> "none", user |-> 0, res |-> None, path |-> None,
           auth |-> FALSE, flow |-> FALSE, sends |-> 0, bot |-> FALSE,
           age |-> -1, again |-> FALSE, net |-> FALSE, t |-> 0,
           near |-> FALSE, pnet |-> FALSE, fr |-> NoFrame, fails |-> 0,
           dbfail |-> FALSE]

\* The step before was a close_session of u that returned True.
JustClosed(u) ==
  last.op = "close_session" /\ last.user = u /\ last.res = "True"

Ret(op, u, res) == [NoCall EXCEPT !.op = op, !.user = u, !.res = res]

FreeFrames == FrameIds \ DOMAIN frames
Suspend(fr) == frames' = Put(frames, Min(FreeFrames), fr)
Resume(i) == frames' = Remove(frames, i)

----------------------------------------------------------------------------
(* asyncio tasks.                                                          *)

\* asyncio.Task.done(): the task has finished.
done(task) == task.st = "done"

FreeIds(tk) == TaskIds \ DOMAIN tk

\* A finished task that no timers entry refers to is forgotten.
Collect(S) ==
  [S EXCEPT !.tasks =
     [i \in {j \in DOMAIN S.tasks :
               ~done(S.tasks[j]) \/ \E u \in DOMAIN S.timers : S.timers[u] = j}
        |-> S.tasks[i]]]

\* asyncio.Task.cancel() on a task that is not done.  CancelledError is
\* raised in the task at the await it is suspended in (or before its first
\* step); the handler catches it and returns (session.py:120-123), so the
\* task does nothing more and is forgotten.  `self` is the task that is
\* running now (0: none): a task that cancels itself runs on to its next
\* await.
cancel(tk, t, self) == IF t = self THEN tk ELSE Remove(tk, t)

\* A task as asyncio.create_task leaves it; `born` is when it was created,
\* `sends` and `fails` count the sends of the notice it has begun and those
\* that raised.
NewTask(u) ==
  [user |-> u, st |-> "new", born |-> now, wake |-> 0, sends |-> 0,
   fails |-> 0, bot |-> FALSE]

\* The running task `t` returns.
Finish(S, t) ==
  IF t \in DOMAIN S.tasks
  THEN Collect([S EXCEPT !.tasks[t].st = "done", !.tasks[t].wake = 0,
                         !.tasks[t].born = 0, !.tasks[t].fails = 0])
  ELSE S

----------------------------------------------------------------------------
(* SessionManager, src/utils/session.py                                    *)

\* A restart_timer that forgets to cancel the task it replaces.
restart_timer_nocancel(S, u) ==
  LET id == Min(FreeIds(S.tasks))
  IN  [S EXCEPT !.tasks = Put(S.tasks, id,
                    NewTask(u)),
                !.timers = Put(S.timers, u, id)]

\* A restart_timer that cancels the old task and creates none.
restart_timer_cancelonly(S, u) ==
  LET tk1 == IF u \in DOMAIN S.timers /\ ~done(S.tasks[S.timers[u]])
             THEN cancel(S.tasks, S.timers[u], 0)
             ELSE S.tasks
  IN  Collect([S EXCEPT !.tasks = tk1, !.timers = Remove(S.timers, u)])

\* restart_timer, session.py:49-63
restart_timer(S, u) ==
  LET tk1 == IF u \in DOMAIN S.timers /\ ~done(S.tasks[S.timers[u]])
             THEN cancel(S.tasks, S.timers[u], 0)
             ELSE S.tasks
      S1  == Collect([S EXCEPT !.tasks = tk1, !.timers = Remove(S.timers, u)])
      id  == Min(FreeIds(S1.tasks))
  IN  [S1 EXCEPT !.tasks = Put(S1.tasks, id,
                     NewTask(u)),
                 !.timers = Put(S.timers, u, id)]

\* A start_session that keeps the flag and the claims of an existing session.
start_session_keepauth(S, u) ==
  restart_timer(
    [S EXCEPT !.sessions =
        IF u \in DOMAIN S.sessions
        THEN [S.sessions EXCEPT ![u].last_activity = now]
        ELSE Put(S.sessions, u,
        [last_activity |-> now, is_authorized |-> FALSE, auth_data |-> None])],
    u)

\* start_session after its storage call, session.py:39-47
start_session_body(S, u) ==
  restart_timer(
    [S EXCEPT !.sessions = Put(S.sessions, u,
        [last_activity |-> now, is_authorized |-> FALSE, auth_data |-> None])],
    u)

\* A register_activity that forgets to restart the timer.
register_activity_norestart(S, u) ==
  IF u \notin DOMAIN S.sessions
  THEN [S |-> S, res |-> "False"]
  ELSE [S |-> [S EXCEPT !.sessions[u].last_activity = now], res |-> "True"]

\* A register_activity that replaces the session by a fresh one.
register_activity_resets(S, u) ==
  IF u \notin DOMAIN S.sessions
  THEN [S |-> S, res |-> "False"]
  ELSE [S |-> start_session_body(S, u), res |-> "True"]

\* register_activity, session.py:128-144
register_activity(S, u) ==
  IF u \notin DOMAIN S.sessions
  THEN [S |-> S, res |-> "False"]
  ELSE [S |-> restart_timer([S EXCEPT !.sessions[u].last_activity = now], u),
        res |-> "True"]

\* A set_authorized that calls start_session although a session exists.
set_authorized_always_start(S, u) == TRUE

\* set_authorized calls start_session first when the user has no session,
\* session.py:162-163
set_authorized_needs_start(S, u) == u \notin DOMAIN S.sessions

\* A set_authorized that marks the session and drops the claims.
mark_authorized_noclaims(S, u, claims) ==
  [S EXCEPT !.sessions[u].is_authorized = TRUE]

\* set_authorized once a session exists, session.py:165-166
mark_authorized(S, u, claims) ==
  [S EXCEPT !.sessions[u].is_authorized = TRUE,
            !.sessions[u].auth_data = claims]

\* is_authorized, session.py:180-193
is_authorized(S, u) ==
  IF u \notin DOMAIN S.sessions THEN FALSE ELSE S.sessions[u].is_authorized

\* A get_auth_data that does not ask is_authorized first.
get_auth_data_noflag(S, u) ==
  IF u \notin DOMAIN S.sessions THEN None ELSE S.sessions[u].auth_data

\* get_auth_data, session.py:195-208
get_auth_data(S, u) ==
  IF ~is_authorized(S, u) THEN None ELSE S.sessions[u].auth_data

\* A close_session that deactivates the stored user of every authorized
\* session, whatever the reason.
needs_deactivate_always(S, u, reason) == S.sessions[u].is_authorized

\* close_session decides whether to deactivate the stored user first,
\* session.py:221-225
needs_deactivate(S, u, reason) ==
  reason = "timeout" /\ S.sessions[u].is_authorized

\* A close_session that leaves the device-flow record in place.
close_session_keepflow(S, u, self) ==
  IF u \notin DOMAIN S.sessions
  THEN [S |-> S, res |-> "False"]
  ELSE LET S2 == [S EXCEPT !.sessions = Remove(S.sessions, u)]
       IN  [S |-> IF u \in DOMAIN S2.timers /\ ~done(S2.tasks[S2.timers[u]])
                  THEN [S2 EXCEPT
                          !.tasks = cancel(S2.tasks, S2.timers[u], self),
                          !.timers = Remove(S2.timers, u)]
                  ELSE S2,
            res |-> "True"]

\* A close_session that reports success but leaves the session in place.
close_session_keep(S, u, self) ==
  IF u \notin DOMAIN S.sessions
  THEN [S |-> S, res |-> "False"]
  ELSE [S |-> [S EXCEPT !.dfd = Remove(S.dfd, u)], res |-> "True"]

\* A close_session that drops the device flow records of all users.
close_session_finish_all(S, u, self) ==
  LET S1 == [S EXCEPT !.dfd = <<>>]
  IN  IF u \notin DOMAIN S1.sessions
      THEN [S |-> S1, res |-> "False"]
      ELSE LET S2 == [S1 EXCEPT !.sessions = Remove(S1.sessions, u)]
               S3 == IF u \in DOMAIN S2.timers /\ ~done(S2.tasks[S2.timers[u]])
                     THEN [S2 EXCEPT
                             !.tasks = cancel(S2.tasks, S2.timers[u], self),
                             !.timers = Remove(S2.timers, u)]
                     ELSE S2
           IN  [S |-> S3, res |-> "True"]

\* close_session from "Close the session" on, session.py:234-252.  Deleting
\* a session that is gone raises KeyError, which the handler at 250-252
\* turns into False.
close_session_finish(S, u, self) ==
  LET S1 == [S EXCEPT !.dfd = Remove(S.dfd, u)]
  IN  IF u \notin DOMAIN S1.sessions
      THEN [S |-> S1, res |-> "False"]
      ELSE LET S2 == [S1 EXCEPT !.sessions = Remove(S1.sessions, u)]
               S3 == IF u \in DOMAIN S2.timers /\ ~done(S2.tasks[S2.timers[u]])
                     THEN [S2 EXCEPT
                             !.tasks = cancel(S2.tasks, S2.timers[u], self),
                             !.timers = Remove(S2.timers, u)]
                     ELSE S2
           IN  [S |-> S3, res |-> "True"]

\* A close_session that lets the exception of User.deactivate through to
\* its outer handler (session.py:250-252), which returns False.
close_after_deactivate_raise(S, u, self, ok) ==
  IF ok THEN close_session_finish(S, u, self) ELSE [S |-> S, res |-> "False"]

\* close_session once User.deactivate has returned (ok) or raised: the
\* exception is caught and printed (session.py:231-232), and the call goes
\* on as if it had returned.
close_after_deactivate(S, u, self, ok) == close_session_finish(S, u, self)

----------------------------------------------------------------------------
(* The expiry handler, _close_session_after_timeout_original,              *)
(* session.py:77-126, run as the timer task `t`.                           *)

\* What the handler reports when it returns.
Expired(S, t, res) ==
  LET u == S.tasks[t].user
  IN  [Ret("expiry", u, res) EXCEPT
         !.auth = is_authorized(S, u),
         !.flow = u \in DOMAIN S.dfd,
         !.sends = S.tasks[t].sends,
         !.fails = S.tasks[t].fails,
         !.bot = S.tasks[t].bot,
         !.age = IF u \in DOMAIN S.sessions
                 THEN now - S.sessions[u].last_activity ELSE -1]

\* A handler that sends the notice whether or not the session is authorized.
should_notify_any(S, u) == bot

\* The handler sends the notice only for an authorized session and only
\* when a bot is set (session.py:94, 105).
should_notify(S, u) == S.sessions[u].is_authorized /\ bot

\* The task starts and goes to sleep (session.py:86).
TimerStart(t) ==
  /\ t \in DOMAIN tasks
  /\ tasks[t].st = "new"
  /\ tasks' = [tasks EXCEPT ![t].st = "sleep",
                            ![t].wake = now + SESSION_TIMEOUT]
  /\ last' = NoCall
  /\ UNCHANGED <<now, bot, settings, sessions, timers, device_flow_data,
                frames, calls>>

\* A handler that a failed send of the notice makes return without closing
\* the session.
timer_close_abort(S, t) ==
  LET u == S.tasks[t].user
  IN  IF u \notin DOMAIN S.sessions \/ S.tasks[t].fails > 0
      THEN [S |-> Finish(S, t), res |-> "False", susp |-> FALSE]
      ELSE IF needs_deactivate(S, u, "timeout")
      THEN [S |-> [S EXCEPT !.tasks[t].st = "deact"], res |-> None,
            susp |-> TRUE]
      ELSE LET r == close_session_finish(S, u, t)
           IN  [S |-> Finish(r.S, t), res |-> r.res, susp |-> FALSE]

\* The handler calls close_session(u, reason="timeout") (session.py:114,
\* 119): close_session up to its first await, or to its end if it has none.
timer_close(S, t) ==
  LET u == S.tasks[t].user
  IN  IF u \notin DOMAIN S.sessions
      THEN [S |-> Finish(S, t), res |-> "False", susp |-> FALSE]
      ELSE IF needs_deactivate(S, u, "timeout")
      THEN [S |-> [S EXCEPT !.tasks[t].st = "deact"], res |-> None,
            susp |-> TRUE]
      ELSE LET r == close_session_finish(S, u, t)
           IN  [S |-> Finish(r.S, t), res |-> r.res, susp |-> FALSE]

\* A handler that does not look whether the session still exists and runs
\* the deletions of close_session.
TimerFire_nocheck(t) ==
  /\ t \in DOMAIN tasks
  /\ tasks[t].st = "sleep"
  /\ now >= tasks[t].wake
  /\ LET u == tasks[t].user
         S == [State EXCEPT !.tasks[t].bot = bot]
     IN  IF u \notin DOMAIN sessions
         THEN LET r == close_session_finish(S, u, t)
              IN  /\ Commit(Finish(r.S, t))
                  /\ last' = Expired(S, t, None)
         ELSE IF should_notify(S, u)
         THEN /\ tasks' = [S.tasks EXCEPT ![t].st = "send", ![t].sends = 1]
              /\ last' = NoCall
              /\ UNCHANGED <<sessions, timers, device_flow_data>>
         ELSE LET r == timer_close(S, t)
              IN  /\ Commit(r.S)
                  /\ last' = IF r.susp THEN NoCall ELSE Expired(S, t, r.res)
  /\ UNCHANGED <<now, bot, settings, frames, calls>>

\* The sleep is over (session.py:88-105): no session, nothing to do; an
\* authorized session with a bot, send the notice; otherwise close.
TimerFire(t) ==
  /\ t \in DOMAIN tasks
  /\ tasks[t].st = "sleep"
  /\ now >= tasks[t].wake
  /\ LET u == tasks[t].user
         S == [State EXCEPT !.tasks[t].bot = bot]
     IN  IF u \notin DOMAIN sessions
         THEN /\ Commit(Finish(S, t))
              /\ last' = Expired(S, t, None)
         ELSE IF should_notify(S, u)
         THEN /\ tasks' = [S.tasks EXCEPT ![t].st = "send", ![t].sends = 1]
              /\ last' = NoCall
              /\ UNCHANGED <<sessions, timers, device_flow_data>>
         ELSE LET r == timer_close(S, t)
              IN  /\ Commit(r.S)
                  /\ last' = IF r.susp THEN NoCall ELSE Expired(S, t, r.res)
  /\ UNCHANGED <<now, bot, settings, frames, calls>>

\* bot.send_message returned (ok) or raised (session.py:108-111); either
\* way the handler goes on to close_session (session.py:114).
TimerSendDone(t, ok) ==
  /\ t \in DOMAIN tasks
  /\ tasks[t].st = "send"
  /\ LET S == [State EXCEPT !.tasks[t].fails = IF ok THEN 0 ELSE 1]
         r == timer_close(S, t)
     IN  /\ Commit(r.S)
         /\ last' = IF r.susp THEN NoCall ELSE Expired(S, t, r.res)
  /\ UNCHANGED <<now, bot, settings, frames, calls>>

\* User.deactivate returned (ok) or raised inside close_session
\* (session.py:226-232); either way close_session goes on.
TimerDeactDone(t, ok) ==
  /\ t \in DOMAIN tasks
  /\ tasks[t].st = "deact"
  /\ LET r == close_after_deactivate(State, tasks[t].user, t, ok)
     IN  /\ Commit(Finish(r.S, t))
         /\ last' = [Expired(State, t, r.res) EXCEPT !.dbfail = ~ok]
  /\ UNCHANGED <<now, bot, settings, frames, calls>>

----------------------------------------------------------------------------
(* Calls of the SessionManager made by the handlers.                       *)

\* set_bot, session.py:24-26
SetBot ==
  /\ ~bot
  /\ bot' = TRUE
  /\ last' = NoCall
  /\ UNCHANGED <<now, settings, sessions, timers, tasks, device_flow_data,
                frames, calls>>

\* start_session up to `await User.create_or_update` (session.py:37)
StartSessionBegin(u) ==
  /\ FreeFrames # {}
  /\ calls' = calls + 1
  /\ Suspend(Frame("start_session", u, "db", None))
  /\ last' = NoCall
  /\ UNCHANGED <<now, bot, settings, sessions, timers, tasks,
                device_flow_data>>

\* The storage call returns (ok) or raises.
StartSessionDone(i, ok) ==
  /\ i \in DOMAIN frames
  /\ frames[i].op = "start_session"
  /\ FreeIds(tasks) # {}
  /\ Resume(i)
  /\ IF ok
     THEN /\ Commit(start_session_body(State, frames[i].user))
          /\ last' = Ret("start_session", frames[i].user, None)
     ELSE /\ UNCHANGED <<sessions, timers, tasks, device_flow_data>>
          /\ last' = Ret("start_session", frames[i].user, "raised")
  /\ UNCHANGED <<now, bot, settings, calls>>

\* is_authorized as a call: it has no await and no assignment
\* (session.py:190-193); the step only returns the answer.
IsAuthorized(u) ==
  /\ last' = Ret("is_authorized", u,
                 IF is_authorized(State, u) THEN "True" ELSE "False")
  /\ UNCHANGED <<now, bot, settings, sessions, timers, tasks,
                 device_flow_data, frames, calls>>

\* get_auth_data as a call, session.py:205-208
GetAuthData(u) ==
  /\ last' = Ret("get_auth_data", u, get_auth_data(State, u))
  /\ UNCHANGED <<now, bot, settings, sessions, timers, tasks,
                 device_flow_data, frames, calls>>

\* register_activity has no await of its own.
RegisterActivity(u) ==
  /\ FreeIds(tasks) # {}
  /\ calls' = calls + 1
  /\ LET r == register_activity(State, u)
     IN  /\ Commit(r.S)
         /\ last' = Ret("register_activity", u, r.res)
  /\ UNCHANGED <<now, bot, settings, frames>>

\* set_authorized up to its first await: the storage call of start_session
\* when there is no session (session.py:162-163, 37), else the storage
\* call at session.py:169.
SetAuthorizedBegin(u, claims) ==
  /\ FreeFrames # {}
  /\ calls' = calls + 1
  /\ IF set_authorized_needs_start(State, u)
     THEN /\ Suspend(Frame("set_authorized", u, "start_db", claims))
          /\ UNCHANGED <<sessions, timers, tasks, device_flow_data>>
     ELSE /\ Suspend(Frame("set_authorized", u, "db", claims))
          /\ Commit(mark_authorized(State, u, claims))
  /\ last' = NoCall
  /\ UNCHANGED <<now, bot, settings>>

\* The storage call of the nested start_session returns or raises; on
\* return the session is created and marked (session.py:39-47, 165-166).
SetAuthorizedStarted(i, ok) ==
  /\ i \in DOMAIN frames
  /\ frames[i].op = "set_authorized"
  /\ frames[i].pc = "start_db"
  /\ FreeIds(tasks) # {}
  /\ IF ok
     THEN /\ Commit(mark_authorized(start_session_body(State, frames[i].user),
                                    frames[i].user, frames[i].arg))
          /\ frames' = [frames EXCEPT ![i].pc = "db"]
          /\ last' = NoCall
     ELSE /\ UNCHANGED <<sessions, timers, tasks, device_flow_data>>
          /\ Resume(i)
          /\ last' = Ret("set_authorized", frames[i].user, "raised")
  /\ UNCHANGED <<now, bot, settings, calls>>

\* The storage call at session.py:169 returns or raises; on return the
\* timer is restarted (session.py:178).  The session may be gone by now.
SetAuthorizedDone(i, ok) ==
  /\ i \in DOMAIN frames
  /\ frames[i].op = "set_authorized"
  /\ frames[i].pc = "db"
  /\ FreeIds(tasks) # {}
  /\ Resume(i)
  /\ IF ok
     THEN /\ Commit(restart_timer(State, frames[i].user))
          /\ last' = Ret("set_authorized", frames[i].user, None)
     ELSE /\ UNCHANGED <<sessions, timers, tasks, device_flow_data>>
          /\ last' = Ret("set_authorized", frames[i].user, "raised")
  /\ UNCHANGED <<now, bot, settings, calls>>

\* close_session called by a handler (session.py:210-252): to its end, or
\* to `await User.deactivate` (session.py:229).
CloseSession(u, reason) ==
  /\ calls' = calls + 1
  /\ IF u \notin DOMAIN sessions
     THEN /\ last' = [Ret("close_session", u, "False") EXCEPT
                        !.path = reason, !.again = JustClosed(u)]
          /\ UNCHANGED <<sessions, timers, tasks, device_flow_data, frames>>
     ELSE IF needs_deactivate(State, u, reason)
     THEN /\ FreeFrames # {}
          /\ Suspend(Frame("close_session", u, "deact", reason))
          /\ last' = NoCall
          /\ UNCHANGED <<sessions, timers, tasks, device_flow_data>>
     ELSE LET r == close_session_finish(State, u, 0)
          IN  /\ Commit(r.S)
              /\ last' = [Ret("close_session", u, r.res) EXCEPT
                            !.path = reason,
                            !.auth = sessions[u].is_authorized,
                            !.flow = u \in DOMAIN device_flow_data]
              /\ UNCHANGED frames
  /\ UNCHANGED <<now, bot, settings>>

\* User.deactivate returned (ok) or raised (session.py:229-232).
CloseSessionDone(i, ok) ==
  /\ i \in DOMAIN frames
  /\ frames[i].op = "close_session"
  /\ Resume(i)
  /\ LET r == close_after_deactivate(State, frames[i].user, 0, ok)
     IN  /\ Commit(r.S)
         /\ last' = [Ret("close_session", frames[i].user, r.res) EXCEPT
                       !.path = frames[i].arg,
                       !.auth = TRUE, !.dbfail = ~ok,
                       !.flow = frames[i].user \in DOMAIN device_flow_data]
  /\ UNCHANGED <<now, bot, settings, calls>>

----------------------------------------------------------------------------
(* Auth0Client, src/utils/auth.py.  A device-flow record has the fields    *)
(* of the source and two more that only record history: `polled`, when     *)
(* poll was last called for this record (-1: never), and `pnet`, whether   *)
(* that poll sent a request to the provider.                               *)

\* The fields of a record that the program holds.
Fields(d) ==
  [device_code |-> d.device_code, expires_at |-> d.expires_at,
   interval |-> d.interval, last_check |-> d.last_check]

\* A placeholder record that is valid for ten seconds only.
dummy_data_short ==
  [device_code |-> "dummy_device_code", expires_at |-> now + 10,
   interval |-> 5, last_check |-> now, polled |-> -1, pnet |-> FALSE]

\* The placeholder record, auth.py:107-112 and 152-157
dummy_data ==
  [device_code |-> "dummy_device_code", expires_at |-> now + 1800,
   interval |-> 5, last_check |-> now, polled |-> -1, pnet |-> FALSE]

\* The record made from the provider's answer, auth.py:138-143
provider_data(interval, expires_in) ==
  [device_code |-> "real_device_code", expires_at |-> now + expires_in,
   interval |-> interval, last_check |-> now, polled |-> -1, pnet |-> FALSE]

\* A poll that does not look at the time of the last check.
poll_begin_nothrottle(S, u) ==
  IF u \notin DOMAIN S.dfd
  THEN [S |-> S, res |-> None, net |-> FALSE, path |-> "no_record"]
  ELSE [S |-> [S EXCEPT !.dfd[u].last_check = now, !.dfd[u].polled = now,
                        !.dfd[u].pnet = TRUE],
        res |-> None, net |-> TRUE, path |-> "request"]

\* A poll that does not write the time of the check.
poll_begin_nowrite(S, u) ==
  IF u \notin DOMAIN S.dfd
  THEN [S |-> S, res |-> None, net |-> FALSE, path |-> "no_record"]
  ELSE IF now - S.dfd[u].last_check < S.dfd[u].interval
  THEN [S |-> [S EXCEPT !.dfd[u].polled = now, !.dfd[u].pnet = FALSE],
        res |-> None, net |-> FALSE, path |-> "throttled"]
  ELSE [S |-> [S EXCEPT !.dfd[u].polled = now, !.dfd[u].pnet = TRUE],
        res |-> None, net |-> TRUE, path |-> "request"]

\* A poll that leaves an expired record in place.
poll_begin_keepexpired(S, u) ==
  IF u \notin DOMAIN S.dfd
  THEN [S |-> S, res |-> None, net |-> FALSE, path |-> "no_record"]
  ELSE IF now > S.dfd[u].expires_at
  THEN [S |-> S, res |-> None, net |-> FALSE, path |-> "expired"]
  ELSE poll_begin_nowrite(S, u)

\* A poll that makes a placeholder record when it finds none.
poll_begin_create(S, u) ==
  IF u \notin DOMAIN S.dfd
  THEN [S |-> [S EXCEPT !.dfd = Put(S.dfd, u, dummy_data)],
        res |-> None, net |-> FALSE, path |-> "no_record"]
  ELSE poll_begin_nowrite(S, u)

\* A poll that sends the placeholder device code to the provider.
poll_begin_nodummy(S, u) ==
  IF u \notin DOMAIN S.dfd
  THEN [S |-> S, res |-> None, net |-> FALSE, path |-> "no_record"]
  ELSE IF now > S.dfd[u].expires_at
  THEN [S |-> [S EXCEPT !.dfd = Remove(S.dfd, u)],
        res |-> None, net |-> FALSE, path |-> "expired"]
  ELSE IF now - S.dfd[u].last_check < S.dfd[u].interval
  THEN [S |-> [S EXCEPT !.dfd[u].polled = now, !.dfd[u].pnet = FALSE],
        res |-> None, net |-> FALSE, path |-> "throttled"]
  ELSE [S |-> [S EXCEPT !.dfd[u].last_check = now, !.dfd[u].polled = now,
                        !.dfd[u].pnet = TRUE],
        res |-> None, net |-> TRUE, path |-> "request"]

\* A poll that makes the throttle check before the expiry check.
poll_begin_throttlefirst(S, u) ==
  IF u \notin DOMAIN S.dfd
  THEN [S |-> S, res |-> None, net |-> FALSE, path |-> "no_record"]
  ELSE IF now - S.dfd[u].last_check < S.dfd[u].interval
  THEN [S |-> [S EXCEPT !.dfd[u].polled = now, !.dfd[u].pnet = FALSE],
        res |-> None, net |-> FALSE, path |-> "throttled"]
  ELSE IF now > S.dfd[u].expires_at
  THEN [S |-> [S EXCEPT !.dfd = Remove(S.dfd, u)],
        res |-> None, net |-> FALSE, path |-> "expired"]
  ELSE IF S.dfd[u].device_code = "dummy_device_code"
  THEN [S |-> [S EXCEPT !.dfd = Remove(S.dfd, u)],
        res |-> "dummy_token", net |-> FALSE, path |-> "dummy"]
  ELSE [S |-> [S EXCEPT !.dfd[u].last_check = now, !.dfd[u].polled = now,
                        !.dfd[u].pnet = TRUE],
        res |-> None, net |-> TRUE, path |-> "request"]

\* poll_device_flow up to its return or to the token request,
\* auth.py:171-211.  `net`: the request is sent.
poll_begin(S, u) ==
  IF u \notin DOMAIN S.dfd
  THEN [S |-> S, res |-> None, net |-> FALSE, path |-> "no_record"]
  ELSE IF now > S.dfd[u].expires_at
  THEN [S |-> [S EXCEPT !.dfd = Remove(S.dfd, u)],
        res |-> None, net |-> FALSE, path |-> "expired"]
  ELSE IF now - S.dfd[u].last_check < S.dfd[u].interval
  THEN [S |-> [S EXCEPT !.dfd[u].polled = now, !.dfd[u].pnet = FALSE],
        res |-> None, net |-> FALSE, path |-> "throttled"]
  ELSE IF S.dfd[u].device_code = "dummy_device_code"
  THEN [S |-> [S EXCEPT !.dfd = Remove(S.dfd, u)],
        res |-> "dummy_token", net |-> FALSE, path |-> "dummy"]
  ELSE [S |-> [S EXCEPT !.dfd[u].last_check = now, !.dfd[u].polled = now,
                        !.dfd[u].pnet = TRUE],
        res |-> None, net |-> TRUE, path |-> "request"]

\* The handler of an exception raised between the request and the return,
\* auth.py:234-244.  Deleting a record that is gone raises KeyError, and
\* from inside the handler it leaves poll.
poll_except(S, u) ==
  IF ~settings
  THEN IF u \in DOMAIN S.dfd
       THEN [S |-> [S EXCEPT !.dfd = Remove(S.dfd, u)], res |-> "dummy_token"]
       ELSE [S |-> S, res |-> "raised"]
  ELSE [S |-> S, res |-> None]

\* A poll that drops the record when the provider says "pending".
poll_response_drop(S, u, resp) ==
  IF resp = "ok" /\ u \in DOMAIN S.dfd
  THEN [S |-> [S EXCEPT !.dfd = Remove(S.dfd, u)], res |-> "token"]
  ELSE [S |-> [S EXCEPT !.dfd = Remove(S.dfd, u)], res |-> None]

\* poll_device_flow from the provider's response on, auth.py:213-244.
\*   "ok"         status 200: delete the record, return the token; if the
\*                record is gone the delete raises KeyError inside the try
\*   "pending"    error authorization_pending: return None
\*   "error"      any other error: delete the record and raise, inside the
\*                try, so the handler at 234 catches it
\*   "exception"  the request or the decoding of the answer raised
poll_response(S, u, resp) ==
  CASE resp = "ok" ->
         IF u \in DOMAIN S.dfd
         THEN [S |-> [S EXCEPT !.dfd = Remove(S.dfd, u)], res |-> "token"]
         ELSE poll_except(S, u)
    [] resp = "pending" -> [S |-> S, res |-> None]
    [] resp = "error" -> poll_except([S EXCEPT !.dfd = Remove(S.dfd, u)], u)
    [] OTHER -> poll_except(S, u)

Responses == {"ok", "pending", "error", "exception"}

\* start_device_flow up to its return (settings incomplete) or to the
\* device-code request, auth.py:101-128
StartDeviceFlowBegin(u) ==
  /\ calls' = calls + 1
  /\ IF ~settings
     THEN /\ device_flow_data' = Put(device_flow_data, u, dummy_data)
          /\ last' = [Ret("start_device_flow", u, "placeholder") EXCEPT
                        !.path = "no_settings"]
          /\ UNCHANGED frames
     ELSE /\ FreeFrames # {}
          /\ Suspend(Frame("start_device_flow", u, "http", None))
          /\ last' = NoCall
          /\ UNCHANGED device_flow_data
  /\ UNCHANGED <<now, bot, settings, sessions, timers, tasks>>

\* The device-code request returns status 200 with the provider's interval
\* and expires_in (auth.py:129-146), or fails (auth.py:130-133, 148-159).
StartDeviceFlowDone(i, ok, interval, expires_in) ==
  /\ i \in DOMAIN frames
  /\ frames[i].op = "start_device_flow"
  /\ Resume(i)
  /\ IF ok
     THEN /\ device_flow_data' = Put(device_flow_data, frames[i].user,
                                     provider_data(interval, expires_in))
          /\ last' = [Ret("start_device_flow", frames[i].user, "provider")
                        EXCEPT !.path = "ok"]
     ELSE /\ device_flow_data' = Put(device_flow_data, frames[i].user,
                                     dummy_data)
          /\ last' = [Ret("start_device_flow", frames[i].user,
                           "placeholder") EXCEPT !.path = "failed"]
  /\ UNCHANGED <<now, bot, settings, sessions, timers, tasks, calls>>

\* The previous poll of u's record was less than its interval ago.
Near(u) ==
  /\ u \in DOMAIN device_flow_data
  /\ device_flow_data[u].polled >= 0
  /\ now - device_flow_data[u].polled < device_flow_data[u].interval

\* The step before was a poll of u that found the record expired.
JustExpired(u) ==
  last.op = "poll" /\ last.user = u /\ last.path = "expired"

\* poll_device_flow is called: it returns at once or sends the request.
PollBegin(u) ==
  /\ calls' = calls + 1
  /\ LET r == poll_begin(State, u)
         ghost == [t |-> now, near |-> Near(u),
                   pnet |-> Near(u) /\ device_flow_data[u].pnet]
     IN  /\ Commit(r.S)
         /\ IF r.net
            THEN /\ FreeFrames # {}
                 /\ Suspend([Frame("poll", u, "http", None) EXCEPT
                               !.t = ghost.t, !.near = ghost.near,
                               !.pnet = ghost.pnet])
                 /\ last' = NoCall
            ELSE /\ last' = [Ret("poll", u, r.res) EXCEPT
                               !.path = r.path, !.t = ghost.t,
                               !.near = ghost.near, !.pnet = ghost.pnet,
                               !.again = JustExpired(u)]
                 /\ UNCHANGED frames
  /\ UNCHANGED <<now, bot, settings>>

\* The token request is answered.
PollDone(i, resp) ==
  /\ i \in DOMAIN frames
  /\ frames[i].op = "poll"
  /\ Resume(i)
  /\ LET r == poll_response(State, frames[i].user, resp)
     IN  /\ Commit(r.S)
         /\ last' = [Ret("poll", frames[i].user, r.res) EXCEPT
                       !.path = resp, !.net = TRUE, !.t = frames[i].t,
                       !.near = frames[i].near, !.pnet = frames[i].pnet]
  /\ UNCHANGED <<now, bot, settings, calls>>

----------------------------------------------------------------------------
(* The /start handler and the polling loop, src/handlers/auth.py.  A       *)
(* handler is a frame: `pc` names the await it is suspended at, and one    *)
(* action runs it from that await to the next one.  Consecutive awaits of  *)
(* the chat, the chat state and the message log between which the handler  *)
(* touches neither the sessions nor the records are one await here.        *)

\* close_session(user_id) with the default reason (session.py:210-252):
\* needs_deactivate is false, so the call has no await.
close_session_now(S, u) ==
  IF u \notin DOMAIN S.sessions
  THEN [S |-> S, res |-> "False"]
  ELSE close_session_finish(S, u, 0)

\* What one run of a handler from an await to the next leaves: the state,
\* the handler's frame, and the call it reports.
loop_stay(S, fr) == [S |-> S, fr |-> fr, last |-> NoCall]

\* The loop calls close_session (auth.py:141 and 165) and goes on to
\* `await state.clear()`.
loop_close(S, fr, pc) ==
  LET r == close_session_now(S, fr.user)
      f == [fr EXCEPT !.pc = pc, !.closes = @ + 1]
  IN  [S |-> r.S, fr |-> f,
       last |-> [Ret("close_session", fr.user, r.res) EXCEPT
                   !.path = "", !.again = JustClosed(fr.user),
                   !.auth = is_authorized(S, fr.user),
                   !.flow = fr.user \in DOMAIN S.dfd,
                   !.fr = f]]

\* `except Exception` of the loop, auth.py:161-168, catching what `who`
\* raised.
loop_except(S, fr, who) ==
  loop_close(S, [fr EXCEPT !.hit = who], "err_clear")

\* poll_device_flow has returned `res` or raised (auth.py:47-52, 126-134).
\* get_user_info answers a placeholder token without an await
\* (utils/auth.py:256-270).
\* `arg` holds the token, then the claims fetched with it.
loop_after_poll(S, fr, res) ==
  IF res = "raised"
  THEN loop_except(S, fr, "poll")
  ELSE IF res = "dummy_token"
  THEN loop_stay(S, [fr EXCEPT !.pc = "save", !.arg = "test_user"])
  ELSE IF res = "token"
  THEN loop_stay(S, [fr EXCEPT !.pc = "profile", !.arg = "token"])
  ELSE IF (fr.attempt + 1) % 5 = 0
  THEN loop_stay(S, [fr EXCEPT !.attempt = @ + 1, !.pc = "progress"])
  ELSE loop_stay(S, [fr EXCEPT !.attempt = @ + 1, !.pc = "sleep",
                               !.t = now + 5])

\* The loop test and the call of poll_device_flow, auth.py:45-47; after the
\* loop, the give-up's first await, auth.py:137.
loop_head(S, fr) ==
  IF fr.attempt < max_attempts
  THEN LET r == poll_begin(S, fr.user)
           f == [fr EXCEPT !.n = @ + 1, !.t = 0]
       IN  IF r.net
           THEN loop_stay(r.S, [f EXCEPT !.pc = "http"])
           ELSE loop_after_poll(r.S, f, r.res)
  ELSE loop_stay(S, [fr EXCEPT !.pc = "giveup_edit", !.t = 0])

\* The loop at frame i suspended at `pc`.
AtLoop(i, pc) ==
  i \in DOMAIN frames /\ frames[i].op = "loop" /\ frames[i].pc = pc

LoopGo(i, r) ==
  /\ frames' = [frames EXCEPT ![i] = r.fr]
  /\ Commit(r.S)
  /\ last' = r.last
  /\ UNCHANGED <<now, bot, settings, calls>>

\* The loop returns (res "ok", "gaveup", "failed") or its exception handler
\* raises (res "died").
LoopEnd(i, res, fr) ==
  /\ Resume(i)
  /\ last' = [Ret("loop", fr.user, res) EXCEPT !.fr = fr]
  /\ UNCHANGED <<now, bot, settings, sessions, timers, tasks,
                device_flow_data, calls>>

\* /start, auth.py:198-220: the storage calls before the branch, and the
\* one of start_session (session.py:37).
CmdStartBegin(u) ==
  /\ FreeFrames # {}
  /\ calls' = calls + 1
  /\ Suspend(Frame("cmd_start", u, "ss_db", None))
  /\ last' = NoCall
  /\ UNCHANGED <<now, bot, settings, sessions, timers, tasks,
                device_flow_data>>

\* start_session returns and start_device_flow is called (auth.py:317-322),
\* or a storage call raised (auth.py:362-364).
CmdStartSession(i, ok) ==
  /\ i \in DOMAIN frames
  /\ frames[i].op = "cmd_start"
  /\ frames[i].pc = "ss_db"
  /\ FreeIds(tasks) # {}
  /\ IF ok
     THEN LET S1 == start_session_body(State, frames[i].user)
          IN  IF ~settings
              THEN /\ Commit([S1 EXCEPT
                                !.dfd = Put(S1.dfd, frames[i].user,
                                            dummy_data)])
                   /\ frames' = [frames EXCEPT ![i].pc = "tell"]
              ELSE /\ Commit(S1)
                   /\ frames' = [frames EXCEPT ![i].pc = "df_http"]
     ELSE /\ Resume(i)
          /\ UNCHANGED <<sessions, timers, tasks, device_flow_data>>
  /\ last' = IF ok THEN NoCall ELSE Ret("cmd_start", frames[i].user, "error")
  /\ UNCHANGED <<now, bot, settings, calls>>

\* The device-code request of start_device_flow is answered
\* (utils/auth.py:124-159); /start goes on to tell the user (auth.py:326-343).
CmdStartFlow(i, ok, interval, expires_in) ==
  /\ i \in DOMAIN frames
  /\ frames[i].op = "cmd_start"
  /\ frames[i].pc = "df_http"
  /\ device_flow_data' =
       Put(device_flow_data, frames[i].user,
           IF ok THEN provider_data(interval, expires_in) ELSE dummy_data)
  /\ frames' = [frames EXCEPT ![i].pc = "tell"]
  /\ last' = [Ret("start_device_flow", frames[i].user,
                   IF ok THEN "provider" ELSE "placeholder") EXCEPT
                !.path = IF ok THEN "ok" ELSE "failed", !.fr = frames'[i]]
  /\ UNCHANGED <<now, bot, settings, sessions, timers, tasks, calls>>

\* The user was told and the polling loop is created (auth.py:346), which
\* runs to its first await (auth.py:43); or telling raised (auth.py:347-361).
CmdStartTell(i, ok) ==
  /\ i \in DOMAIN frames
  /\ frames[i].op = "cmd_start"
  /\ frames[i].pc = "tell"
  /\ IF ok
     THEN frames' = [frames EXCEPT
                       ![i] = Frame("loop", frames[i].user, "hello", None)]
     ELSE Resume(i)
  /\ last' = Ret("cmd_start", frames[i].user,
                 IF ok THEN "polling" ELSE "error")
  /\ UNCHANGED <<now, bot, settings, sessions, timers, tasks,
                device_flow_data, calls>>

\* The first status message is sent, or sending raised (auth.py:43).
LoopHello(i, ok) ==
  /\ AtLoop(i, "hello")
  /\ LoopGo(i, IF ok THEN loop_head(State, frames[i])
                     ELSE loop_except(State, frames[i], "chat"))

\* The token request of the loop's poll is answered (auth.py:47).
LoopPollDone(i, resp) ==
  /\ AtLoop(i, "http")
  /\ LET r == poll_response(State, frames[i].user, resp)
     IN  LoopGo(i, loop_after_poll(r.S, frames[i], r.res))

\* The progress message is edited, or editing raised (auth.py:129-134).
LoopProgressDone(i, ok) ==
  /\ AtLoop(i, "progress")
  /\ LoopGo(i, IF ok
               THEN loop_stay(State, [frames[i] EXCEPT !.pc = "sleep",
                                                       !.t = now + 5])
               ELSE loop_except(State, frames[i], "chat"))

\* The sleep between two attempts is over (auth.py:134).
LoopWake(i) ==
  /\ AtLoop(i, "sleep")
  /\ frames[i].t <= now
  /\ LoopGo(i, loop_head(State, frames[i]))

\* get_user_info is answered with the claims, or raised (auth.py:52,
\* utils/auth.py:272-303).
LoopProfileDone(i, ok, claims) ==
  /\ AtLoop(i, "profile")
  /\ LoopGo(i, IF ok
               THEN loop_stay(State, [frames[i] EXCEPT !.pc = "save",
                                                       !.arg = claims])
               ELSE loop_except(State, frames[i], "profile"))

\* A loop that stores the user but does not authorize the session.
loop_saved_noauth(S, fr) == loop_stay(S, [fr EXCEPT !.pc = "report"])

\* The user is stored and set_authorized is called, up to its first await
\* (auth.py:64-72, session.py:162-169).
loop_saved(S, fr) ==
  IF set_authorized_needs_start(S, fr.user)
  THEN loop_stay(S, [fr EXCEPT !.pc = "sa_start_db", !.auths = @ + 1])
  ELSE loop_stay(mark_authorized(S, fr.user, fr.arg),
                 [fr EXCEPT !.pc = "sa_db", !.auths = @ + 1])

\* User.create_or_update returned or raised (auth.py:62-67).
LoopSaveDone(i, ok) ==
  /\ AtLoop(i, "save")
  /\ LoopGo(i, IF ok THEN loop_saved(State, frames[i])
                     ELSE loop_except(State, frames[i], "storage"))

\* set_authorized, called by the loop: the storage call of its nested
\* start_session returned or raised (session.py:162-166).
LoopSetAuthorizedStarted(i, ok) ==
  /\ AtLoop(i, "sa_start_db")
  /\ FreeIds(tasks) # {}
  /\ LoopGo(i, IF ok
               THEN loop_stay(mark_authorized(
                                start_session_body(State, frames[i].user),
                                frames[i].user, frames[i].arg),
                              [frames[i] EXCEPT !.pc = "sa_db"])
               ELSE loop_except(State, frames[i], "set_authorized"))

\* set_authorized, called by the loop: its storage call returned, the timer
\* is restarted and the loop goes on to report (session.py:169-178,
\* auth.py:78); or the call raised.
LoopSetAuthorizedDone(i, ok) ==
  /\ AtLoop(i, "sa_db")
  /\ FreeIds(tasks) # {}
  /\ LoopGo(i, IF ok
               THEN loop_stay(restart_timer(State, frames[i].user),
                              [frames[i] EXCEPT !.pc = "report"])
               ELSE loop_except(State, frames[i], "set_authorized"))

\* The success is reported and the loop returns (out "ok"), or one of the
\* awaits of the report raised: a message to the chat or its logging
\* (auth.py:78-123).
LoopReportDone(i, out) ==
  /\ AtLoop(i, "report")
  /\ IF out = "ok"
     THEN LoopEnd(i, "ok", frames[i])
     ELSE LoopGo(i, loop_except(State, frames[i], out))

\* Give-up: the status message is edited and close_session is called, or
\* editing raised (auth.py:137-141).
LoopGiveUpEdit(i, ok) ==
  /\ AtLoop(i, "giveup_edit")
  /\ LoopGo(i, IF ok THEN loop_close(State, frames[i], "giveup_clear")
                     ELSE loop_except(State, frames[i], "chat"))

\* Give-up: the chat state is cleared, or clearing raised (auth.py:144).
LoopGiveUpClear(i, ok) ==
  /\ AtLoop(i, "giveup_clear")
  /\ LoopGo(i, IF ok
               THEN loop_stay(State, [frames[i] EXCEPT !.pc = "giveup_msg"])
               ELSE loop_except(State, frames[i], "state"))

\* Give-up: the timeout message is sent, or sending raised (auth.py:151).
LoopGiveUpMsg(i, ok) ==
  /\ AtLoop(i, "giveup_msg")
  /\ LoopGo(i, IF ok
               THEN loop_stay(State, [frames[i] EXCEPT !.pc = "giveup_log",
                                                       !.msgs = @ + 1])
               ELSE loop_except(State, frames[i], "chat"))

\* Give-up: the message is logged and the loop returns, or logging raised
\* (auth.py:154-159).
LoopGiveUpLog(i, ok) ==
  /\ AtLoop(i, "giveup_log")
  /\ IF ok
     THEN LoopEnd(i, "gaveup", frames[i])
     ELSE LoopGo(i, loop_except(State, frames[i], "storage"))

\* Error cleanup: the chat state is cleared, or clearing raised and the
\* exception leaves the loop (auth.py:168).
LoopErrClear(i, ok) ==
  /\ AtLoop(i, "err_clear")
  /\ IF ok
     THEN LoopGo(i, loop_stay(State, [frames[i] EXCEPT !.pc = "err_msg"]))
     ELSE LoopEnd(i, "died", frames[i])

\* Error cleanup: the error message is sent and logged; an exception of
\* either is swallowed (auth.py:175-186).  `sent`: the message went out.
LoopErrMsg(i, sent) ==
  /\ AtLoop(i, "err_msg")
  /\ LoopEnd(i, "failed",
             [frames[i] EXCEPT !.msgs = @ + (IF sent THEN 1 ELSE 0)])

----------------------------------------------------------------------------
(* Time.                                                                   *)

\* A task that must run before time passes: one not yet started, or one
\* whose sleep is over.
Ready(t) ==
  \/ tasks[t].st = "new"
  \/ tasks[t].st = "sleep" /\ tasks[t].wake <= now

\* The polling loops asleep between two attempts (handlers/auth.py:134).
Sleepers == {i \in DOMAIN frames : frames[i].pc = "sleep"}

Deadlines ==
  {tasks[t].wake : t \in {i \in DOMAIN tasks : tasks[i].st = "sleep"}}
  \cup {frames[i].t : i \in Sleepers}

Tick(d, horizon) ==
  /\ \A t \in DOMAIN tasks : ~Ready(t)
  /\ \A i \in Sleepers : frames[i].t > now
  /\ now' = Min({now + d} \cup Deadlines)
  /\ now' <= horizon
  /\ last' = NoCall
  /\ UNCHANGED <<bot, settings, sessions, timers, tasks, device_flow_data,
                frames, calls>>

----------------------------------------------------------------------------

Init ==
  /\ now = 0
  /\ bot = FALSE
  /\ settings \in BOOLEAN
  /\ sessions = <<>>
  /\ timers = <<>>
  /\ tasks = <<>>
  /\ device_flow_data = <<>>
  /\ frames = <<>>
  /\ calls = 0
  /\ last = NoCall

TimerStep ==
  \E t \in TaskIds :
    \/ TimerStart(t)
    \/ TimerFire(t)
    \/ \E ok \in BOOLEAN : TimerSendDone(t, ok) \/ TimerDeactDone(t, ok)

SessionCall ==
  /\ calls < MaxCalls
  /\ \E u \in Users :
       \/ StartSessionBegin(u)
       \/ RegisterActivity(u)
       \/ \E c \in ClaimsSet : SetAuthorizedBegin(u, c)
       \/ \E r \in Reasons : CloseSession(u, r)

SessionReturn ==
  \E i \in FrameIds :
    \/ \E ok \in BOOLEAN : StartSessionDone(i, ok)
    \/ \E ok \in BOOLEAN : SetAuthorizedStarted(i, ok)
    \/ \E ok \in BOOLEAN : SetAuthorizedDone(i, ok)
    \/ \E ok \in BOOLEAN : CloseSessionDone(i, ok)

\* The session manager over two timeouts, with the placeholder device flow
\* of an installation that has no provider settings.
InitSession == Init /\ settings = FALSE

NextSession ==
  \/ SetBot
  \/ TimerStep
  \/ SessionCall
  \/ SessionReturn
  \/ calls < MaxCalls /\ \E u \in Users : StartDeviceFlowBegin(u)
  \/ \E d \in TimeSteps : Tick(d, MaxTime)

SpecSession == InitSession /\ [][NextSession]_vars

\* The same with the event loop's scheduling: a timer task that can run
\* does run (its sleep, its send and its storage call end), and time passes.
SpecSessionFair ==
  /\ SpecSession
  /\ WF_vars(TimerStep)
  /\ WF_vars(\E d \in TimeSteps : Tick(d, MaxTime))

\* The session manager with its two read calls, which a handler may make
\* between any two steps.
ReadCall ==
  \E u \in Users : IsAuthorized(u) \/ GetAuthData(u)

NextRead ==
  \/ NextSession
  \/ ReadCall

SpecRead == InitSession /\ [][NextRead]_vars

\* Two users call the session manager and the device flow client on the
\* same event loop.
InitTwo ==
  /\ now = 0
  /\ bot = TRUE
  /\ settings = TRUE
  /\ sessions = <<>>
  /\ timers = <<>>
  /\ tasks = <<>>
  /\ device_flow_data = <<>>
  /\ frames = <<>>
  /\ calls = 0
  /\ last = NoCall

TwoCall ==
  /\ calls < MaxTwoCalls
  /\ \E u \in TwoUsers :
       \/ StartSessionBegin(u)
       \/ RegisterActivity(u)
       \/ \E c \in ClaimsSet : SetAuthorizedBegin(u, c)
       \/ \E r \in Reasons : CloseSession(u, r)
       \/ StartDeviceFlowBegin(u)
       \/ PollBegin(u)

TwoReturn ==
  \E i \in FrameIds :
    \/ \E ok \in BOOLEAN : StartSessionDone(i, ok)
    \/ \E ok \in BOOLEAN : SetAuthorizedStarted(i, ok)
    \/ \E ok \in BOOLEAN : SetAuthorizedDone(i, ok)
    \/ \E ok \in BOOLEAN : CloseSessionDone(i, ok)
    \/ \E ok \in BOOLEAN : \E iv \in ProviderIntervals :
         \E ex \in ProviderExpiresIn : StartDeviceFlowDone(i, ok, iv, ex)
    \/ \E resp \in Responses : PollDone(i, resp)

NextTwo ==
  \/ TimerStep
  \/ TwoCall
  \/ TwoReturn
  \/ \E d \in TimeSteps : Tick(d, TwoHorizon)

SpecTwo == InitTwo /\ [][NextTwo]_vars

\* The device flow with the sessions that close_session ends, over a time
\* too short for a session to expire.
FlowCall ==
  /\ calls < MaxFlowCalls
  /\ \E u \in Users :
       \/ StartDeviceFlowBegin(u)
       \/ PollBegin(u)
       \/ StartSessionBegin(u)
       \/ \E r \in Reasons : CloseSession(u, r)

FlowReturn ==
  \E i \in FrameIds :
    \/ \E ok \in BOOLEAN : StartSessionDone(i, ok)
    \/ \E ok \in BOOLEAN : \E iv \in ProviderIntervals :
         \E ex \in ProviderExpiresIn : StartDeviceFlowDone(i, ok, iv, ex)
    \/ \E resp \in Responses : PollDone(i, resp)

NextFlow ==
  \/ \E t \in TaskIds : TimerStart(t)
  \/ FlowCall
  \/ FlowReturn
  \/ \E d \in FlowSteps : Tick(d, FlowHorizon)

SpecFlow == Init /\ [][NextFlow]_vars

\* /start and /logout arrive, the polling loops and the timers run.  The
\* handlers are started after set_bot (bot.py:69), so the bot is set.
InitLoop ==
  /\ now = 0
  /\ bot = TRUE
  /\ settings \in BOOLEAN
  /\ sessions = <<>>
  /\ timers = <<>>
  /\ tasks = <<>>
  /\ device_flow_data = <<>>
  /\ frames = <<>>
  /\ calls = 0
  /\ last = NoCall

\* /logout closes the session with the default reason (auth.py:368-410).
LoopCall ==
  \E u \in Users :
    \/ calls < MaxStarts /\ CmdStartBegin(u)
    \/ calls < MaxLoopCalls /\ CloseSession(u, "")

CmdStartStep ==
  \E i \in FrameIds :
    \/ \E ok \in BOOLEAN : CmdStartSession(i, ok) \/ CmdStartTell(i, ok)
    \/ \E ok \in BOOLEAN, iv \in ProviderIntervals,
          ex \in ProviderExpiresIn : CmdStartFlow(i, ok, iv, ex)

LoopPollStep ==
  \E i \in FrameIds :
    \/ \E ok \in BOOLEAN : LoopHello(i, ok) \/ LoopProgressDone(i, ok)
    \/ \E resp \in Responses : LoopPollDone(i, resp)
    \/ LoopWake(i)

LoopTokenStep ==
  \E i \in FrameIds, ok \in BOOLEAN :
    \/ \E claims \in ClaimsSet : LoopProfileDone(i, ok, claims)
    \/ LoopSaveDone(i, ok)
    \/ LoopSetAuthorizedStarted(i, ok)
    \/ LoopSetAuthorizedDone(i, ok)
    \/ \E out \in {"ok", "chat", "storage"} : LoopReportDone(i, out)

LoopGiveUpStep ==
  \E i \in FrameIds, ok \in BOOLEAN :
    \/ LoopGiveUpEdit(i, ok)
    \/ LoopGiveUpClear(i, ok)
    \/ LoopGiveUpMsg(i, ok)
    \/ LoopGiveUpLog(i, ok)

LoopErrStep ==
  \E i \in FrameIds, ok \in BOOLEAN : LoopErrClear(i, ok) \/ LoopErrMsg(i, ok)

NextLoop ==
  \/ TimerStep
  \/ LoopCall
  \/ CmdStartStep
  \/ LoopPollStep
  \/ LoopTokenStep
  \/ LoopGiveUpStep
  \/ LoopErrStep
  \/ \E d \in FlowSteps : Tick(d, LoopHorizon)

SpecLoop == InitLoop /\ [][NextLoop]_vars

\* /start arrives again while the polling loop of the /start before it
\* runs, over a time in which no session expires and no loop gives up.
RestartCall ==
  /\ calls < MaxRestarts
  /\ \E u \in Users : CmdStartBegin(u)

NextRestart ==
  \/ \E t \in TaskIds : TimerStart(t)
  \/ RestartCall
  \/ CmdStartStep
  \/ LoopPollStep
  \/ LoopTokenStep
  \/ LoopErrStep
  \/ \E d \in FlowSteps : Tick(d, RestartHorizon)

SpecRestart == InitLoop /\ [][NextRestart]_vars

----------------------------------------------------------------------------
(* Properties of the session manager.                                      *)

\* The timer tasks of user u that have not finished.
LiveTasks(u) == {t \in DOMAIN tasks : tasks[t].user = u /\ ~done(tasks[t])}

\* The call that completed in the last step restarted u's timer.
Restarted(u) ==
  /\ last.user = u
  /\ \/ last.op = "register_activity" /\ last.res = "True"
     \/ last.op \in {"start_session", "set_authorized"} /\ last.res = None

\* C1: however many times restart_timer has run for a user, the user has at
\* most one unfinished timer task, it is the one in the timers map (every
\* earlier one has been cancelled), after a restart it is exactly one, and
\* no handler attempts more than one send: so at most one expiry handler
\* runs and at most one notice goes out.
C1_OneLiveTimer ==
  \A u \in Users :
    /\ Cardinality(LiveTasks(u)) <= 1
    /\ \A t \in LiveTasks(u) : u \in DOMAIN timers /\ timers[u] = t
    /\ \A t \in DOMAIN tasks : tasks[t].sends <= 1
    /\ Restarted(u) => Cardinality(LiveTasks(u)) = 1

\* Three calls were made at time 0, the timer ran out at 60 and its one
\* handler sent one notice and closed the session.
C1_Witness ==
  /\ last.op = "expiry"
  /\ last.res = "True"
  /\ last.sends = 1
  /\ calls >= 3
  /\ now = SESSION_TIMEOUT

\* The timer of u's session, if it has not fired yet.
Pending(u) ==
  /\ u \in DOMAIN sessions
  /\ u \in DOMAIN timers
  /\ tasks[timers[u]].st \in {"new", "sleep"}

\* C2: the pending timer of a session was created at or after the
\* session's last activity (after start_session or a successful
\* register_activity: at that very time), it wakes exactly SESSION_TIMEOUT
\* after it was created and not before, and a session closed by its timer
\* had been idle for at least SESSION_TIMEOUT.
C2_ExpiresAfterLastActivity ==
  /\ \A u \in Users :
       Pending(u) =>
         /\ tasks[timers[u]].born >= sessions[u].last_activity
         /\ ( /\ last.user = u
              /\ \/ last.op = "register_activity" /\ last.res = "True"
                 \/ last.op = "start_session" /\ last.res = None )
            => tasks[timers[u]].born = sessions[u].last_activity
  /\ \A t \in DOMAIN tasks :
       tasks[t].st = "sleep" =>
         /\ tasks[t].wake = tasks[t].born + SESSION_TIMEOUT
         /\ now <= tasks[t].wake
  /\ (last.op = "expiry" /\ last.res = "True") => last.age >= SESSION_TIMEOUT

\* Scenario D: activity at second 50, the session is closed at second 110.
C2_Witness ==
  /\ now = 110
  /\ last.op = "expiry"
  /\ last.res = "True"
  /\ last.age = SESSION_TIMEOUT
  /\ calls = 2

\* C3 as stated: after the expiry handler has closed a session the session
\* is absent, and it attempted one send if the session was authorized and
\* none if it was not.
C3_Original ==
  (last.op = "expiry" /\ last.res = "True") =>
    /\ last.user \notin DOMAIN sessions
    /\ last.sends = IF last.auth THEN 1 ELSE 0

\* C3 amended: ... it attempted one send if the session was authorized and
\* a bot was set when the handler woke, and none otherwise.
C3_ExpiryNotifiesOnce ==
  (last.op = "expiry" /\ last.res = "True") =>
    /\ last.user \notin DOMAIN sessions
    /\ last.sends = IF last.auth /\ last.bot THEN 1 ELSE 0

\* An authorized session expired with a bot set: one send, session gone.
C3_Witness ==
  /\ last.op = "expiry"
  /\ last.res = "True"
  /\ last.auth
  /\ last.bot
  /\ last.sends = 1
  /\ last.user \notin DOMAIN sessions

\* C4: close_session returns True or False, never raises, and leaves no
\* session behind; a call that finds no session returns False and changes
\* nothing; a call that finds one returns True (after its storage call, if
\* it has one, provided the session is still there); a call made right
\* after one that returned True returns False.
C4_CloseIdempotent ==
  [][ /\ \A u \in Users : \A r \in Reasons :
           CloseSession(u, r) =>
             /\ u \notin DOMAIN sessions =>
                  /\ last'.res = "False"
                  /\ UNCHANGED <<sessions, timers, tasks, device_flow_data,
                                 frames>>
             /\ (u \in DOMAIN sessions /\ frames' = frames) =>
                  /\ last'.res = "True"
                  /\ u \notin DOMAIN sessions'
             /\ JustClosed(u) =>
                  /\ frames' = frames
                  /\ last'.res = "False"
      /\ \A i \in FrameIds :
           (\E ok \in BOOLEAN : CloseSessionDone(i, ok)) =>
             /\ last'.res = IF frames[i].user \in DOMAIN sessions
                            THEN "True" ELSE "False"
             /\ frames[i].user \notin DOMAIN sessions' ]_vars

\* A close_session that returned True, then one that returned False.
C4_Witness ==
  /\ last.op = "close_session"
  /\ last.again
  /\ last.res = "False"
  /\ sessions = <<>>

\* C5: when close_session has returned True (called by a handler with any
\* reason, or by the expiry handler), the user has no session, no entry in
\* the timers map, no device-flow record, and no unfinished timer task.
C5_CloseLeavesNothing ==
  (last.op \in {"close_session", "expiry"} /\ last.res = "True") =>
    /\ last.user \notin DOMAIN sessions
    /\ last.user \notin DOMAIN timers
    /\ last.user \notin DOMAIN device_flow_data
    /\ LiveTasks(last.user) = {}

\* close_session(u, "timeout") of an authorized session that had a
\* device-flow record returned True.
C5_Witness ==
  /\ last.op = "close_session"
  /\ last.res = "True"
  /\ last.path = "timeout"
  /\ last.auth
  /\ last.flow
  /\ last.user \notin DOMAIN device_flow_data

----------------------------------------------------------------------------
(* Properties of the device flow.                                          *)

\* C6 as stated: a poll that the provider answers with an error other than
\* authorization_pending deletes the record and raises.
C6_Original ==
  (last.op = "poll" /\ last.path = "error") =>
    /\ last.res = "raised"
    /\ last.user \notin DOMAIN device_flow_data

\* C7 as stated: a poll that the provider answers with status 200 returns
\* the token, and the user has no record afterwards.
C7_Original ==
  (last.op = "poll" /\ last.path = "ok") =>
    /\ last.res = "token"
    /\ last.user \notin DOMAIN device_flow_data

\* C8: a poll that sends the token request has changed nothing of the
\* record but last_check, which is now the time of the poll; when the
\* provider answers authorization_pending the poll returns None and leaves
\* every device-flow record as it is.
C8_PendingKeepsRecord ==
  [][ /\ \A u \in Users :
           (PollBegin(u) /\ frames' # frames) =>
             /\ u \in DOMAIN device_flow_data'
             /\ Fields(device_flow_data'[u]) =
                  [Fields(device_flow_data[u]) EXCEPT !.last_check = now]
      /\ \A i \in FrameIds :
           PollDone(i, "pending") =>
             /\ last'.res = None
             /\ UNCHANGED device_flow_data ]_vars

\* A poll made after time 0 was answered authorization_pending: the record
\* is there and its last_check is the time of that poll.
C8_Witness ==
  /\ last.op = "poll"
  /\ last.path = "pending"
  /\ last.res = None
  /\ last.t > 0
  /\ last.user \in DOMAIN device_flow_data
  /\ device_flow_data[last.user].device_code = "real_device_code"
  /\ device_flow_data[last.user].last_check = last.t

\* C9: a poll of a record that has not expired, made less than `interval`
\* after last_check, returns None at once, sends no request, and changes no
\* field of the record nor anything else.
C9_ThrottledPollChangesNothing ==
  [][\A u \in Users :
       ( /\ PollBegin(u)
         /\ u \in DOMAIN device_flow_data
         /\ now <= device_flow_data[u].expires_at
         /\ now - device_flow_data[u].last_check < device_flow_data[u].interval )
       => /\ last'.op = "poll"
          /\ last'.res = None
          /\ ~last'.net
          /\ frames' = frames
          /\ DOMAIN device_flow_data' = DOMAIN device_flow_data
          /\ Fields(device_flow_data'[u]) = Fields(device_flow_data[u])
          /\ UNCHANGED <<sessions, timers, tasks>>]_vars

\* A poll was throttled some time after the record's last check, and the
\* last check is still the old one.
C9_Witness ==
  /\ last.op = "poll"
  /\ last.path = "throttled"
  /\ last.res = None
  /\ last.user \in DOMAIN device_flow_data
  /\ device_flow_data[last.user].last_check < last.t
  /\ now = last.t

\* C10 as stated: of two polls of a record made less than its interval
\* apart at most one sends a request, and the later one (like the earlier)
\* returns None.
C10_Original ==
  (last.op = "poll" /\ last.near) =>
    /\ ~(last.net /\ last.pnet)
    /\ last.res = None

\* C10 amended: of two polls of a record made less than its interval apart
\* at most one sends a request; when the earlier one sent it, the later one
\* sends none and returns None (it is throttled, or finds the record
\* expired).
C10_ThrottleHolds ==
  (last.op = "poll" /\ last.near) =>
    /\ ~(last.net /\ last.pnet)
    /\ last.pnet => /\ last.res = None
                    /\ last.path \in {"throttled", "expired"}

\* A poll that sent a request, then within the interval one that was
\* throttled.
C10_Witness ==
  /\ last.op = "poll"
  /\ last.near
  /\ last.pnet
  /\ last.path = "throttled"
  /\ last.res = None

\* C11: a poll of a record with now > expires_at returns None at once,
\* sends no request and deletes the record; a poll made right after it
\* returns None, sends nothing and changes nothing; and no step but the
\* return of start_device_flow ever adds a record.
C11_ExpiredPollDeletes ==
  [][ /\ \A u \in Users :
           PollBegin(u) =>
             /\ ( /\ u \in DOMAIN device_flow_data
                  /\ now > device_flow_data[u].expires_at )
                => /\ last'.op = "poll"
                   /\ last'.res = None
                   /\ ~last'.net
                   /\ frames' = frames
                   /\ u \notin DOMAIN device_flow_data'
             /\ JustExpired(u)
                => /\ last'.op = "poll"
                   /\ last'.res = None
                   /\ ~last'.net
                   /\ frames' = frames
                   /\ UNCHANGED device_flow_data
      /\ (DOMAIN device_flow_data' \ DOMAIN device_flow_data # {})
           => last'.op = "start_device_flow" ]_vars

\* A poll found the record expired, and the poll right after it returned
\* None with no record there.
C11_Witness ==
  /\ last.op = "poll"
  /\ last.again
  /\ last.res = None
  /\ last.path = "no_record"
  /\ last.user \notin DOMAIN device_flow_data

\* C12: a poll for a user with no device-flow record returns None at once,
\* sends no request, and changes no record, session, timer or task.
C12_PollWithoutRecord ==
  [][\A u \in Users :
       (PollBegin(u) /\ u \notin DOMAIN device_flow_data) =>
         /\ last'.op = "poll"
         /\ last'.res = None
         /\ ~last'.net
         /\ UNCHANGED <<sessions, timers, tasks, device_flow_data, frames>>
    ]_vars

\* A poll returned None for a user who has a session and a timer but no
\* record.
C12_Witness ==
  /\ last.op = "poll"
  /\ last.path = "no_record"
  /\ last.res = None
  /\ ~last.again
  /\ last.user \in DOMAIN sessions
  /\ last.user \in DOMAIN timers
  /\ device_flow_data = <<>>

\* C13: start_device_flow never raises, and when it returns the user has a
\* record; it returns the placeholder triple, with the placeholder record
\* made at that time, when the settings are incomplete or the device-code
\* request fails, and the provider's data only when the request succeeded.
C13_StartNeverFails ==
  last.op = "start_device_flow" =>
    /\ last.res \in {"placeholder", "provider"}
    /\ last.user \in DOMAIN device_flow_data
    /\ last.path \in {"no_settings", "failed"} =>
         /\ last.res = "placeholder"
         /\ Fields(device_flow_data[last.user]) =
              [device_code |-> "dummy_device_code", expires_at |-> now + 1800,
               interval |-> 5, last_check |-> now]
    /\ last.path = "ok" =>
         /\ last.res = "provider"
         /\ device_flow_data[last.user].device_code = "real_device_code"
         /\ device_flow_data[last.user].last_check = now

\* With complete settings the device-code request failed after time 0:
\* start returned the placeholder.
C13_Witness ==
  /\ last.op = "start_device_flow"
  /\ last.path = "failed"
  /\ settings
  /\ now > 0
  /\ device_flow_data[last.user].device_code = "dummy_device_code"

\* C14: a poll of a placeholder record at the time start made it is
\* throttled: it returns None and keeps the record; a poll of it once five
\* seconds have passed since the last check deletes the record and returns
\* the synthetic token, and sends no request.
C14_PlaceholderPoll ==
  [][\A u \in Users :
       ( /\ PollBegin(u)
         /\ u \in DOMAIN device_flow_data
         /\ device_flow_data[u].device_code = "dummy_device_code"
         /\ now <= device_flow_data[u].expires_at )
       => /\ last'.op = "poll"
          /\ ~last'.net
          /\ frames' = frames
          /\ IF now - device_flow_data[u].last_check < 5
             THEN /\ last'.res = None
                  /\ u \in DOMAIN device_flow_data'
                  /\ Fields(device_flow_data'[u]) = Fields(device_flow_data[u])
             ELSE /\ last'.res = "dummy_token"
                  /\ u \notin DOMAIN device_flow_data'
          /\ (last.op = "start_device_flow" /\ last.user = u)
               => last'.res = None ]_vars

\* The first poll of a placeholder record after its interval returned the
\* synthetic token.
C14_Witness ==
  /\ last.op = "poll"
  /\ last.path = "dummy"
  /\ last.res = "dummy_token"
  /\ ~last.net
  /\ last.user \notin DOMAIN device_flow_data


----------------------------------------------------------------------------
\* The polling loops that are running.
Loops == {i \in DOMAIN frames : frames[i].op = "loop"}

\* C15: the polling loop calls poll at most 30 times, and a loop whose 30
\* polls all returned no token has, when it ends, called close_session
\* exactly once.
\* Violated: the give-up runs inside the loop's `try`, so when one of its
\* own awaits raises (auth.py:144-159) the error cleanup runs after it and
\* calls close_session a second time.
C15_Original ==
  /\ \A i \in Loops : frames[i].n <= max_attempts
  /\ last.op = "loop" /\ last.fr.attempt = max_attempts =>
       /\ last.fr.n = max_attempts
       /\ last.fr.closes = 1

\* The loop has ended through its error cleanup, having caught an
\* exception of poll, get_user_info, the storage or set_authorized.
CleanedUp ==
  /\ last.op = "loop"
  /\ last.res \in {"failed", "died"}
  /\ last.fr.hit \in {"poll", "profile", "storage", "set_authorized"}

\* C16: when the loop has caught an exception of a leaf collaborator and
\* its cleanup has finished, it has called close_session exactly once and
\* the user has neither a session nor a device-flow record.
\* Violated: the storage call that logs the timeout message (auth.py:154)
\* raises after the give-up has already called close_session, and the
\* cleanup calls it again.
C16_Original ==
  CleanedUp =>
    /\ last.fr.closes = 1
    /\ last.user \notin DOMAIN sessions
    /\ last.user \notin DOMAIN device_flow_data

\* Where a loop that holds a token is: fetching the claims, storing the
\* user, inside set_authorized, reporting.
TokenPcs == {"profile", "save", "sa_start_db", "sa_db", "report"}

\* The loop has ended, and one of its polls had returned a token.
EndedWithToken == last.op = "loop" /\ last.fr.arg # None

C18_Original ==
  /\ last.op = "close_session" /\ last.fr.op = "loop"
  /\ last.res = "True"
  /\ last.fr.hit # "set_authorized"
  => ~last.auth

\* C19: a device-flow record exists for a user only if the user has a
\* session.
\* Violated: /start has created the session and awaits the provider's
\* answer inside start_device_flow (utils/auth.py:126-127) when the session
\* is closed, by /logout or by the expiry handler; the answer arrives and
\* the record is stored (utils/auth.py:139 or 158) for a user without a
\* session.
C19_Original ==
  \A u \in DOMAIN device_flow_data : u \in DOMAIN sessions

\* C20: an authorization attempt that fails tells the user so exactly once;
\* stated here as its half that the chat itself cannot break: a loop that
\* ends without authorizing has sent at most one explanatory message.
\* Violated: the loop gives up and sends the timeout message (auth.py:151),
\* the logging of that message raises (auth.py:154), and the error cleanup
\* sends the error message as well (auth.py:176).
C20_Original ==
  last.op = "loop" /\ last.res # "ok" => last.fr.msgs <= 1

\* The step is one of timer task t itself.
OwnStep(t) ==
  \/ TimerStart(t)
  \/ TimerFire(t)
  \/ \E ok \in BOOLEAN : TimerSendDone(t, ok) \/ TimerDeactDone(t, ok)

\* Timer task t is cancelled in this step, by restart_timer or by
\* close_session: it is not done, the step is not its own, and afterwards
\* it is gone or its id names a new task.
CancelledNow(t) ==
  /\ t \in DOMAIN tasks
  /\ ~done(tasks[t])
  /\ ~OwnStep(t)
  /\ t \notin DOMAIN tasks' \/ tasks'[t] # tasks[t]

\* C21: a timer task is cancelled only before or during its sleep, so a
\* cancelled task has sent no notification and has not begun to close the
\* session.
\* Violated: the handler awaits bot.send_message (session.py:108) and,
\* inside close_session, User.deactivate (session.py:229); a restart_timer
\* or close_session made by another handler during either await cancels
\* the task there, after it has begun to send the notice.
C21_Original ==
  [][\A t \in TaskIds :
       CancelledNow(t) =>
         tasks[t].st \in {"new", "sleep"} /\ tasks[t].sends = 0]_vars

\* C22: when the expiry handler's send of the timeout notice fails, the
\* handler makes exactly one retry, so that it has made two send attempts
\* when it returns.
\* Violated: the handler sends once (session.py:108) and only logs the
\* failure (session.py:110-111); the retry after a delay is written in
\* send_timeout_notification (session.py:291-301), which the handler does
\* not call.
C22_Original ==
  last.op = "expiry" /\ last.fails > 0 => last.sends = 2

\* C23: when the expiry handler finds an authorized session and its send of
\* the notice raises, or no bot is set, the handler goes on to
\* close_session(user, "timeout"): it is then inside that call, awaiting
\* the deactivation, or the session is already absent; and when such a
\* handler returns, close_session has returned True and the session is
\* absent.
C23_ClosureNotBlocked ==
  [][/\ \A t \in DOMAIN tasks :
          LET u == tasks[t].user
          IN  (\/ TimerSendDone(t, FALSE)
               \/ TimerFire(t) /\ is_authorized(State, u) /\ ~bot)
              => (\/ t \in DOMAIN tasks' /\ tasks'[t].st = "deact"
                  \/ u \notin DOMAIN sessions')
     /\ (/\ last'.op = "expiry" /\ last'.auth
         /\ last'.fails > 0 \/ ~last'.bot)
        => (last'.res = "True" /\ last'.user \notin DOMAIN sessions')
  ]_vars

\* The handler of an authorized session has returned: its send had raised,
\* and the session is closed.
C23_Witness ==
  /\ last.op = "expiry" /\ last.auth /\ last.bot
  /\ last.sends = 1 /\ last.fails = 1
  /\ last.res = "True"
  /\ last.user \notin DOMAIN sessions

\* close_session, called by a handler, is awaiting User.deactivate.
Deactivating(i) ==
  /\ i \in DOMAIN frames
  /\ frames[i].op = "close_session"
  /\ frames[i].pc = "deact"

\* C24: close_session awaits the deactivation of the stored user exactly
\* when its reason is "timeout" and the session is authorized at the call;
\* the step that issues it removes nothing from memory, and the removal
\* follows when the deactivation has returned or raised.  With any other
\* reason, or for an unauthorized session, close_session runs to its end
\* without a storage call.  The same holds for the call made by the expiry
\* handler.
C24_DeactivateFirst ==
  [][/\ \A u \in Users : \A r \in Reasons :
          CloseSession(u, r) =>
            IF u \in DOMAIN sessions /\ r = "timeout"
               /\ sessions[u].is_authorized
            THEN /\ \E i \in DOMAIN frames' \ DOMAIN frames :
                      frames'[i].op = "close_session"
                      /\ frames'[i].pc = "deact" /\ frames'[i].user = u
                 /\ UNCHANGED <<sessions, timers, tasks, device_flow_data>>
            ELSE /\ frames' = frames
                 /\ last'.op = "close_session"
                 /\ u \notin DOMAIN sessions'
     /\ \A i \in FrameIds :
          (\E ok \in BOOLEAN : CloseSessionDone(i, ok)) =>
            /\ Deactivating(i)
            /\ frames[i].arg = "timeout"
            /\ frames[i].user \notin DOMAIN sessions'
            /\ frames[i].user \notin DOMAIN device_flow_data'
     /\ \A t \in DOMAIN tasks :
          LET u == tasks[t].user
              closing == \/ \E ok \in BOOLEAN : TimerSendDone(t, ok)
                         \/ TimerFire(t) /\ ~(t \in DOMAIN tasks'
                                              /\ tasks'[t].st = "send")
          IN  /\ closing =>
                 IF is_authorized(State, u)
                 THEN /\ t \in DOMAIN tasks' /\ tasks'[t].st = "deact"
                      /\ UNCHANGED <<sessions, timers, device_flow_data>>
                 ELSE /\ ~(t \in DOMAIN tasks' /\ tasks'[t].st = "deact")
                      /\ u \notin DOMAIN sessions'
              /\ (\E ok \in BOOLEAN : TimerDeactDone(t, ok)) =>
                   u \notin DOMAIN sessions'
  ]_vars

\* A handler's close_session(u, "timeout") awaits the deactivation while
\* the authorized session, its timer and its record are still in memory.
C24_Witness ==
  \E i \in DOMAIN frames :
    /\ Deactivating(i)
    /\ is_authorized(State, frames[i].user)
    /\ frames[i].user \in DOMAIN timers
    /\ frames[i].user \in DOMAIN device_flow_data

\* C25: when User.deactivate raises inside close_session(user, "timeout"),
\* called by a handler or by the expiry handler, close_session goes on as
\* after a deactivation that returned: it returns True and the session, the
\* device-flow record and the timers entry of the user are gone (False, as
\* for every close_session, when another call closed the session during
\* the await).
C25_DeactivationFailureSwallowed ==
  [][/\ \A i \in FrameIds :
          CloseSessionDone(i, FALSE) =>
            LET u == frames[i].user
            IN  /\ last'.op = "close_session"
                /\ last'.res = IF u \in DOMAIN sessions
                               THEN "True" ELSE "False"
                /\ u \notin DOMAIN sessions'
                /\ u \notin DOMAIN device_flow_data'
                /\ u \in DOMAIN sessions => u \notin DOMAIN timers'
     /\ \A t \in DOMAIN tasks :
          TimerDeactDone(t, FALSE) =>
            LET u == tasks[t].user
            IN  /\ last'.op = "expiry"
                /\ last'.res = IF u \in DOMAIN sessions
                               THEN "True" ELSE "False"
                /\ u \notin DOMAIN sessions'
                /\ u \notin DOMAIN device_flow_data'
                /\ u \in DOMAIN sessions => u \notin DOMAIN timers'
  ]_vars

\* close_session(u, "timeout") returned True although the deactivation had
\* raised; the session had a device-flow record, and nothing of the user is
\* left.
C25_Witness ==
  /\ last.op = "close_session" /\ last.path = "timeout"
  /\ last.dbfail /\ last.flow
  /\ last.res = "True"
  /\ last.user \notin DOMAIN sessions
  /\ last.user \notin DOMAIN device_flow_data
  /\ last.user \notin DOMAIN timers

\* set_authorized marks u's session in this step with `claims`.
Marks(u, claims) ==
  \/ SetAuthorizedBegin(u, claims) /\ u \in DOMAIN sessions
  \/ \E i \in DOMAIN frames :
       /\ frames[i].user = u /\ frames[i].arg = claims
       /\ SetAuthorizedStarted(i, TRUE)

\* C26: the step in which set_authorized(user, claims) marks the session
\* leaves is_authorized(user) true and get_auth_data(user) equal to those
\* claims; set_authorized returns without touching the session again; and
\* from then on the two answers change only in a step that closes the
\* session, that restarts it (start_session), or in which set_authorized
\* marks it again.
C26_RoundTrip ==
  [][\A u \in Users :
       /\ \A c \in ClaimsSet :
            Marks(u, c) =>
              is_authorized(State', u) /\ get_auth_data(State', u) = c
       /\ \A i \in DOMAIN frames :
            frames[i].user = u /\ SetAuthorizedDone(i, TRUE) =>
              sessions' = sessions
       /\ (/\ is_authorized(State, u)
           /\ \/ ~is_authorized(State', u)
              \/ get_auth_data(State', u) # get_auth_data(State, u))
          => \/ u \notin DOMAIN sessions'
             \/ \E i \in DOMAIN frames :
                  frames[i].user = u /\ StartSessionDone(i, TRUE)
             \/ \E c \in ClaimsSet : Marks(u, c)
  ]_vars

\* After set_authorized(user, "claimsB") and at least one more call, a
\* register_activity finds the user still authorized with those claims.
C26_Witness ==
  /\ last.op = "register_activity" /\ last.res = "True"
  /\ calls >= 3
  /\ is_authorized(State, last.user)
  /\ get_auth_data(State, last.user) = "claimsB"

\* C27: set_authorized(user, claims) calls start_session exactly when the
\* user has no session: with a session it marks that session at once and
\* leaves its last_activity and its timer alone; without one the nested
\* start_session creates the session, which is then marked.  Either way
\* the claims are stored, the upsert of the user follows once, and when it
\* has returned the timer is restarted: set_authorized returns with
\* exactly one unfinished timer task of the user, the new one in the timers
\* map.
C27_SetAuthorized ==
  [][\A u \in Users :
       /\ \A c \in ClaimsSet :
            SetAuthorizedBegin(u, c) =>
              \E i \in DOMAIN frames' \ DOMAIN frames :
                /\ frames'[i].arg = c
                /\ IF u \in DOMAIN sessions
                   THEN /\ frames'[i].pc = "db"
                        /\ sessions' =
                             [sessions EXCEPT ![u].is_authorized = TRUE,
                                              ![u].auth_data = c]
                   ELSE /\ frames'[i].pc = "start_db"
                        /\ sessions' = sessions
                /\ UNCHANGED <<timers, tasks>>
       /\ \A i \in DOMAIN frames :
            /\ frames[i].user = u /\ SetAuthorizedStarted(i, TRUE) =>
                 /\ frames'[i].pc = "db"
                 /\ sessions'[u] = [last_activity |-> now,
                                    is_authorized |-> TRUE,
                                    auth_data |-> frames[i].arg]
            /\ frames[i].user = u /\ SetAuthorizedDone(i, TRUE) =>
                 /\ frames[i].pc = "db"
                 /\ i \notin DOMAIN frames'
                 /\ sessions' = sessions
                 /\ Cardinality(LiveTasks(u)') = 1
                 /\ u \in DOMAIN timers'
                 /\ timers'[u] \in LiveTasks(u)'
                 /\ tasks'[timers'[u]].st = "new"
  ]_vars

\* set_authorized, the only call made, has returned: it created the
\* session, the user is authorized and has exactly one timer.
C27_Witness ==
  /\ last.op = "set_authorized" /\ last.res = None
  /\ calls = 1
  /\ is_authorized(State, last.user)
  /\ Cardinality(LiveTasks(last.user)) = 1

\* C28: when the storage call of start_session has returned, the call ends
\* with the user's session replaced by a fresh one (not authorized, no
\* claims, last_activity the current time), whatever session the user had,
\* and with exactly one unfinished timer task of the user, a new one that
\* the timers map names.
C28_StartSessionResets ==
  [][\A i \in DOMAIN frames : \A u \in Users :
       frames[i].user = u /\ StartSessionDone(i, TRUE) =>
             /\ frames[i].pc = "db"
             /\ i \notin DOMAIN frames'
             /\ last'.op = "start_session" /\ last'.res = None
             /\ sessions'[u] = [last_activity |-> now',
                                is_authorized |-> FALSE,
                                auth_data |-> None]
             /\ ~is_authorized(State', u)
             /\ get_auth_data(State', u) = None
             /\ Cardinality(LiveTasks(u)') = 1
             /\ u \in DOMAIN timers'
             /\ timers'[u] \in LiveTasks(u)'
             /\ tasks'[timers'[u]] = NewTask(u)
  ]_vars

\* start_session has returned while a set_authorized of the same user,
\* which had marked the session authorized, still waits for its storage
\* call: the authorized session was replaced by an unauthorized one.
C28_Witness ==
  /\ last.op = "start_session" /\ last.res = None
  /\ calls = 2 /\ now = 0
  /\ \E i \in DOMAIN frames :
       /\ frames[i].op = "set_authorized" /\ frames[i].pc = "db"
       /\ frames[i].user = last.user
  /\ ~is_authorized(State, last.user)

\* C29: register_activity of a user without a session returns False and
\* changes nothing: no session, no timer task, no entry of the timers map,
\* no device flow record.  With a session it returns True, sets
\* last_activity to the current time, which is not before the old value,
\* leaves is_authorized and auth_data as they were, and restarts the timer:
\* afterwards the user has exactly one unfinished timer task, a new one
\* named by the timers map.
C29_RegisterActivity ==
  [][\A u \in Users :
       RegisterActivity(u) =>
         /\ last'.op = "register_activity" /\ last'.user = u
         /\ frames' = frames /\ device_flow_data' = device_flow_data
         /\ IF u \notin DOMAIN sessions
            THEN /\ last'.res = "False"
                 /\ UNCHANGED <<sessions, timers, tasks>>
            ELSE /\ last'.res = "True"
                 /\ sessions' = [sessions EXCEPT ![u].last_activity = now]
                 /\ sessions[u].last_activity <= now
                 /\ sessions'[u].is_authorized = sessions[u].is_authorized
                 /\ sessions'[u].auth_data = sessions[u].auth_data
                 /\ Cardinality(LiveTasks(u)') = 1
                 /\ u \in DOMAIN timers'
                 /\ timers'[u] \in LiveTasks(u)'
                 /\ tasks'[timers'[u]] = NewTask(u)
  ]_vars

\* register_activity has returned True for an authorized user some time
\* after the session was marked: the session is still authorized with its
\* claims and its last_activity is the current time.
C29_Witness ==
  /\ last.op = "register_activity" /\ last.res = "True"
  /\ now > 0
  /\ is_authorized(State, last.user)
  /\ get_auth_data(State, last.user) \in ClaimsSet
  /\ sessions[last.user].last_activity = now
  /\ Cardinality(LiveTasks(last.user)) = 1

\* The records a caller can store in the sessions dictionary.
SessionRecords ==
  [last_activity : {0}, is_authorized : BOOLEAN,
   auth_data : ClaimsSet \cup {None}]

\* C30: is_authorized and get_auth_data change no session, timer task,
\* timers entry, device flow record or suspended call.  For a user without
\* a session is_authorized returns False and get_auth_data None, and
\* get_auth_data returns None whenever is_authorized is false; that holds
\* for every record the sessions dictionary could hold for the user, one
\* with auth_data and a false flag included.
C30_PureReads ==
  [][\A u \in Users :
       /\ IsAuthorized(u) =>
            /\ UNCHANGED <<sessions, timers, tasks, device_flow_data, frames>>
            /\ last'.op = "is_authorized"
            /\ (u \notin DOMAIN sessions => last'.res = "False")
       /\ GetAuthData(u) =>
            /\ UNCHANGED <<sessions, timers, tasks, device_flow_data, frames>>
            /\ last'.op = "get_auth_data"
            /\ (u \notin DOMAIN sessions => last'.res = None)
            /\ (~is_authorized(State, u) => last'.res = None)
       /\ \A rec \in SessionRecords :
            ~rec.is_authorized =>
              get_auth_data([State EXCEPT !.sessions = Put(sessions, u, rec)],
                            u) = None
  ]_vars

\* get_auth_data has returned None for a user whose session exists and is
\* not authorized, while a device flow record and a timer task exist.
C30_Witness ==
  /\ last.op = "get_auth_data" /\ last.res = None
  /\ last.user \in DOMAIN sessions
  /\ ~is_authorized(State, last.user)
  /\ last.user \in DOMAIN device_flow_data
  /\ LiveTasks(last.user) # {}

\* The step is one of an operation made for user a: a call, the return of
\* one of its awaits, or a step of an expiry handler of a.
ActsFor(a) ==
  \/ StartSessionBegin(a)
  \/ RegisterActivity(a)
  \/ \E c \in ClaimsSet : SetAuthorizedBegin(a, c)
  \/ \E r \in Reasons : CloseSession(a, r)
  \/ StartDeviceFlowBegin(a)
  \/ PollBegin(a)
  \/ \E i \in DOMAIN frames :
       /\ frames[i].user = a
       /\ \/ \E ok \in BOOLEAN :
               \/ StartSessionDone(i, ok)
               \/ SetAuthorizedStarted(i, ok)
               \/ SetAuthorizedDone(i, ok)
               \/ CloseSessionDone(i, ok)
               \/ \E iv \in ProviderIntervals : \E ex \in ProviderExpiresIn :
                    StartDeviceFlowDone(i, ok, iv, ex)
          \/ \E resp \in Responses : PollDone(i, resp)
  \/ \E t \in DOMAIN tasks :
       /\ tasks[t].user = a
       /\ \/ TimerStart(t)
          \/ TimerFire(t)
          \/ \E ok \in BOOLEAN : TimerSendDone(t, ok) \/ TimerDeactDone(t, ok)

\* What the program holds for user b: the session, the timers entry, the
\* timer tasks and the device flow record.
Holds(b) ==
  [session |-> IF b \in DOMAIN sessions THEN <<sessions[b]>> ELSE <<>>,
   timer   |-> IF b \in DOMAIN timers THEN <<timers[b]>> ELSE <<>>,
   tasks   |-> [t \in {i \in DOMAIN tasks : tasks[i].user = b} |-> tasks[t]],
   flow    |-> IF b \in DOMAIN device_flow_data
               THEN <<device_flow_data[b]>> ELSE <<>>]

\* C31: a step of any operation made for user a (start and poll of the
\* device flow, start_session, register_activity, set_authorized,
\* close_session, with the restart_timer they call, and the expiry handler)
\* leaves the session, the timers entry, the timer tasks and the device
\* flow record of every other user b as they were.
C31_UsersIndependent ==
  [][\A a \in TwoUsers : \A b \in TwoUsers \ {a} :
       ActsFor(a) => Holds(b)' = Holds(b)]_vars

\* close_session of one user has returned True while the other user has a
\* device flow record.
C31_Witness ==
  \E a \in TwoUsers : \E b \in TwoUsers \ {a} :
    /\ last.op = "close_session" /\ last.user = a /\ last.res = "True"
    /\ b \in DOMAIN device_flow_data

\* C32: poll_device_flow tests expiry before throttling, both strictly.  A
\* poll of a record with now > expires_at deletes the record and returns
\* None, also when now - last_check < interval.  A poll at now = expires_at
\* does not take the expiry branch.  A poll of an unexpired record at
\* now - last_check = interval is not throttled: it goes on, which for a
\* provider record means last_check becomes now and the token request is
\* sent, and for the placeholder record that the dummy token is returned.
C32_PollOrder ==
  [][\A u \in Users :
       (PollBegin(u) /\ u \in DOMAIN device_flow_data) =>
         LET d == device_flow_data[u]
         IN  /\ (now > d.expires_at) =>
                  /\ u \notin DOMAIN device_flow_data'
                  /\ last'.op = "poll" /\ last'.res = None
                  /\ last'.path = "expired"
                  /\ frames' = frames
             /\ (now = d.expires_at) =>
                  /\ last'.path # "expired"
                  /\ (now - d.last_check < d.interval =>
                        /\ last'.path = "throttled"
                        /\ u \in DOMAIN device_flow_data')
             /\ (now <= d.expires_at /\ now - d.last_check = d.interval) =>
                  /\ last'.path \notin {"expired", "throttled"}
                  /\ IF d.device_code = "dummy_device_code"
                     THEN /\ last'.res = "dummy_token"
                          /\ u \notin DOMAIN device_flow_data'
                     ELSE /\ device_flow_data'[u].last_check = now
                          /\ \E i \in DOMAIN frames' \ DOMAIN frames :
                               frames'[i].op = "poll"
  ]_vars

\* A poll has found the record expired less than the record's interval
\* after a poll of the same record that sent its request and so wrote
\* last_check: the throttle check would have stopped this poll.
C32_Witness ==
  /\ last.op = "poll" /\ last.path = "expired"
  /\ last.near /\ last.pnet
  /\ last.user \notin DOMAIN device_flow_data

\* C33: an expiry handler whose sleep is over while its user has no session
\* returns at once.  It sends no notice and awaits no deactivation (the
\* task is finished after this step, having begun no send), and it leaves
\* the sessions, the timers map, the device flow records and every other
\* timer task as they were.
C33_StaleTimerDoesNothing ==
  [][\A t \in DOMAIN tasks :
       (TimerFire(t) /\ tasks[t].user \notin DOMAIN sessions) =>
         /\ UNCHANGED <<sessions, timers, device_flow_data, frames>>
         /\ \A x \in DOMAIN tasks \ {t} :
              x \in DOMAIN tasks' /\ tasks'[x] = tasks[x]
         /\ DOMAIN tasks' \subseteq DOMAIN tasks
         /\ (t \in DOMAIN tasks' => done(tasks'[t]))
         /\ tasks[t].sends = 0
         /\ last'.op = "expiry" /\ last'.res = None
         /\ last'.sends = 0 /\ ~last'.dbfail
  ]_vars

\* An expiry handler has returned after it found no session for its user,
\* while the user had a device flow record, which is still there.
C33_Witness ==
  /\ last.op = "expiry" /\ last.res = None /\ last.age = -1
  /\ last.user \notin DOMAIN sessions
  /\ last.flow
  /\ last.user \in DOMAIN device_flow_data

\* C34: the inactivity timer of a session that is not yet authorized does
\* not remove the device flow record while the polling loop of the user
\* still has attempts left and the device code has not expired, so that an
\* approval given in that time is seen by a later poll of the loop.
\* Violated: nothing restarts the timer while the loop waits, so 60 s
\* after /start the expiry handler closes the session (session.py:119) and
\* close_session deletes the record (session.py:236-237); the loop is then
\* at its 12th of 30 attempts and every later poll returns None because the
\* record is gone (utils/auth.py:172-173).
C34_Original ==
  [][\A u \in Users : \A t \in DOMAIN tasks :
       ( /\ tasks[t].user = u
         /\ OwnStep(t)
         /\ u \in DOMAIN device_flow_data
         /\ now <= device_flow_data[u].expires_at
         /\ \E i \in Loops :
              /\ frames[i].user = u
              /\ frames[i].attempt < max_attempts
              /\ frames[i].pc \in {"sleep", "http", "progress"} )
       => u \in DOMAIN device_flow_data'
  ]_vars

\* C35: the cleanup of a polling loop touches only the attempt the loop was
\* started for: when /start came again while the loop ran, the close_session
\* of the earlier loop's cleanup does not close the session that the later
\* /start created nor remove the device flow record that it stored.
\* With two /start calls in all, the handler in the higher frame is the
\* later one.
\* Violated: the loop knows its attempt by the user id only; its cleanup
\* calls close_session(user_id) (auth.py:165), which closes whatever session
\* the user has and deletes whatever record is stored (session.py:236-240).
C35_Original ==
  [][\A i \in DOMAIN frames : \A j \in DOMAIN frames :
       ( /\ i < j /\ calls <= 2
         /\ frames[i].op = "loop"
         /\ frames[j].user = frames[i].user
         /\ frames[j].op \in {"cmd_start", "loop"}
         /\ frames[j].pc # "ss_db"
         /\ i \in DOMAIN frames'
         /\ frames'[i].closes > frames[i].closes )
       => /\ (frames[i].user \in DOMAIN sessions =>
                frames[i].user \in DOMAIN sessions')
          /\ (frames[j].pc # "df_http"
              /\ frames[i].user \in DOMAIN device_flow_data =>
                frames[i].user \in DOMAIN device_flow_data')
  ]_vars

\* C36: the timeout notice goes out only when that expiry closes the
\* session: an expiry handler that has begun to send the notice ends only
\* with the user's session closed, also when register_activity,
\* set_authorized or start_session runs for the user while the handler
\* awaits the send or the deactivation.
\* Violated: each of the three calls restart_timer, which cancels the
\* handler at the await it is suspended in (session.py:57-60); the handler
\* returns from `except asyncio.CancelledError` (session.py:120-123) with
\* the notice sent and the session, restarted, still open.
C36_Original ==
  [][\A t \in DOMAIN tasks :
       ( /\ tasks[t].sends > 0
         /\ ~done(tasks[t])
         /\ \/ t \notin DOMAIN tasks'
            \/ done(tasks'[t])
            \/ tasks'[t].sends = 0 )
       => tasks[t].user \notin DOMAIN sessions'
  ]_vars

\* C37: a poll acts only on the record it read.  When its token request is
\* answered, the poll does not raise, and a record that was stored by a
\* start made after the request was sent (one that no poll has read yet)
\* is left as it is.
\* Violated: after the await the poll deletes device_flow_data[user_id] by
\* key (utils/auth.py:222 and 231), whichever record is stored there then.
C37_Original ==
  [][\A i \in DOMAIN frames : \A resp \in Responses :
       (frames[i].op = "poll" /\ PollDone(i, resp)) =>
         /\ last'.res # "raised"
         /\ (/\ frames[i].user \in DOMAIN device_flow_data
             /\ device_flow_data[frames[i].user].polled = -1) =>
              /\ frames[i].user \in DOMAIN device_flow_data'
              /\ device_flow_data'[frames[i].user] =
                   device_flow_data[frames[i].user]
  ]_vars

\* C38: in every state reached through start_session, set_authorized,
\* register_activity, close_session and the expiry handlers, a user who has
\* a session has a timer task that is not finished and not cancelled; and
\* so a session that exists when no call is left to be made or to return,
\* early enough for its timeout to lie within the time observed, is
\* eventually closed.
C38_SessionHasTimer ==
  /\ [](\A u \in DOMAIN sessions : LiveTasks(u) # {})
  /\ \A u \in Users :
       ( /\ u \in DOMAIN sessions
         /\ calls = MaxCalls /\ frames = <<>>
         /\ now <= MaxTime - SESSION_TIMEOUT )
       ~> (u \notin DOMAIN sessions)

\* A session exists with no call left, and its timer task is the expiry
\* handler suspended in the send of the notice.
C38_Witness ==
  \E u \in DOMAIN sessions :
    /\ calls = MaxCalls /\ frames = <<>>
    /\ now <= MaxTime - SESSION_TIMEOUT
    /\ \E t \in LiveTasks(u) : tasks[t].st = "send"

\* C39: a user has an unfinished timer task, or an entry in the timers map,
\* only while the user has a session, also when close_session or an expiry
\* runs while set_authorized or start_session of the user awaits its
\* storage call.
\* Violated: set_authorized calls restart_timer after its storage call
\* without looking whether the session is still there (session.py:178).
C39_Original ==
  \A u \in Users :
    (LiveTasks(u) # {} \/ u \in DOMAIN timers) => u \in DOMAIN sessions

============================================================================
